---- MODULE Spec2Model ----
(***************************************************************************)
(* A model of vmx2xml.py: the VMX descriptor parser, the file reference    *)
(* resolver, the device enumerators and the command assembler.             *)
(*                                                                         *)
(* A Python str is modelled as a sequence of one-character strings, so     *)
(* that lower(), strip(), index(), slicing, prefix and suffix matching are *)
(* computed character by character as the code computes them.              *)
(***************************************************************************)
EXTENDS Integers, Sequences, FiniteSets, TLC

VARIABLES
    pc,         \* position of the run: which step comes next
    status,     \* "running", "exit0", "exit1" (sys.exit), or the uncaught exception:
                \* "crash" (KeyError, TypeError), "ValueError", "AssertionError", "struct.error"
    vmx,        \* the descriptor file: a sequence of lines (without line terminator)
    d,          \* the key-value store, defaultdict(str): key |-> value for assigned keys
    fs,         \* the files of the host: a set of paths, each a sequence of components
    scan,       \* the order in which a directory listing returns names
    datastores, \* the datastore table in insertion order: records [ref, src, tgt]
    disk_mode,  \* "none", "translate" or "convert"
    raw,        \* option --raw
    skip_extra, \* option --skip-extra
    osfiles,    \* the disk files in which virt-inspector finds an operating system
    networks,   \* the user network mappings: [name |-> dictionary, type |-> dictionary]
    sandbox,    \* option --sandbox
    ref,        \* the reference handed to parse_filename_ref
    conv_mode,  \* the conversion method get_options returns: "v2v", "x" or "y"
    adj_mode,   \* the adjustment mode get_options returns: "none", "v2v" or "x"
    argv,       \* the command line, as argparse hands it to get_options
    fidelity,   \* option --fidelity
    trace_cmd,  \* option --trace-cmd
    output_xml, \* option --output-xml, the xml_name of main
    tools,      \* command |-> the version it reports in tenths, 0 when none is found
    xml_file,   \* the output file: "none", "old" (as found), "empty" or "written"
    paths,      \* what parse_filename_ref returned
    sysinfo,    \* main: "host" or ""
    nvram,      \* main: the resolved nvram reference
    disk_ctrls, \* main: interface |-> controllers
    disks,      \* main: the disk records
    floppys,    \* main: the two resolved floppy references
    eths,       \* main: the Ethernet records
    bus,        \* main: the index in Interfaces of the interface enumerated next
    memory,     \* main: the memory size
    genid,      \* main: the generation ID string
    topology,   \* main: [vcpus, sockets, cores, threads]
    sound,      \* main: the sound model
    cmd_args,   \* virt_install: the argument list args assembled so far
    di,         \* virt_install: the index in disks of the disk handled next
    cp_calls,   \* the <<srcpath, tgtpath>> of every call of convert_path so far
    created_dirs, \* the directories os.makedirs created: they did not exist
    made_dirs,  \* the directories os.makedirs has been called for
    runs,       \* the external tools run on disk files so far: records [tool, src, adj]
    written,    \* file |-> what the run has put into it: "empty", "copy" or "image"
    boot_in,    \* testboot_xml: the command line and the file it names
    domain,     \* testboot_xml: the libvirt domain: "absent", "defined", "paused", "running"
    clock,      \* testboot_xml: the seconds the stopwatch has counted
    result      \* testboot_xml: testboot_domain has detected network activity

\* what the run is given and never changes
inputs == <<vmx, scan, datastores, disk_mode, raw, skip_extra, osfiles, networks, sandbox, ref,
            argv, fidelity, trace_cmd, output_xml, tools, conv_mode, adj_mode>>

\* what main computes before the command assembler
records == <<sysinfo, nvram, disk_ctrls, disks, floppys, eths, bus>>

\* the scalar settings main decodes
machine == <<memory, genid, topology, sound>>

\* what the run has done to the disk files of the host
effects == <<runs, written, created_dirs, boot_in, domain, clock, result>>

\* the state of the boot test
boot == <<boot_in, domain, clock, result>>

vars == <<pc, status, d, fs, paths, di, cp_calls, made_dirs, cmd_args, xml_file, inputs, records,
          machine, effects>>

(***************************************************************************)
(* Python string primitives                                                *)
(***************************************************************************)
UpperChars == <<"A","B","C","D","E","F","G","H","I","J","K","L","M",
                "N","O","P","Q","R","S","T","U","V","W","X","Y","Z">>

LowerChars == <<"a","b","c","d","e","f","g","h","i","j","k","l","m",
                "n","o","p","q","r","s","t","u","v","w","x","y","z">>

\* str.lower() on one character
LowerChar(c) ==
    IF \E i \in DOMAIN UpperChars : UpperChars[i] = c
    THEN LowerChars[CHOOSE i \in DOMAIN UpperChars : UpperChars[i] = c]
    ELSE c

\* str.lower()
Lower(s) == [i \in 1..Len(s) |-> LowerChar(s[i])]

\* the characters str.strip() without argument removes
Whitespace == {" ", "\t", "\n", "\r"}

\* s[a:b] with Python's 0-based, end-exclusive indices (0 <= a, b <= len)
Slice(s, a, b) == SubSeq(s, a + 1, b)

\* str.strip(chars): drop every leading and trailing character that is in cs
StripChars(s, cs) ==
    LET keep == {i \in 1..Len(s) : s[i] \notin cs}
        Min(S) == CHOOSE x \in S : \A y \in S : x <= y
        Max(S) == CHOOSE x \in S : \A y \in S : x >= y
    IN  IF keep = {} THEN <<>> ELSE SubSeq(s, Min(keep), Max(keep))

\* str.strip()
Strip(s) == StripChars(s, Whitespace)

\* str.index(c) as used by parse_vmx: 0-based offset of the first c, -1 when absent
IndexOf(s, c) ==
    IF \E i \in 1..Len(s) : s[i] = c
    THEN (CHOOSE i \in 1..Len(s) : s[i] = c /\ \A j \in 1..(i - 1) : s[j] # c) - 1
    ELSE -1

\* s.partition(c): <<before, whether c occurs, after>>
Partition(s, c) ==
    LET i == IndexOf(s, c) IN
    IF i < 0 THEN <<s, FALSE, <<>>>>
    ELSE <<Slice(s, 0, i), TRUE, Slice(s, i + 1, Len(s))>>

\* str.startswith / str.endswith
StartsWith(s, p) == Len(p) <= Len(s) /\ SubSeq(s, 1, Len(p)) = p

EndsWith(s, p) == Len(p) <= Len(s) /\ SubSeq(s, Len(s) - Len(p) + 1, Len(s)) = p

\* d[key] on a defaultdict(str): the empty string for an absent key
Get(dict, key) == IF key \in DOMAIN dict THEN dict[key] ELSE <<>>

\* d[key] = value
Put(dict, key, value) ==
    [k \in (DOMAIN dict) \cup {key} |-> IF k = key THEN value ELSE dict[k]]

EmptyDict == [k \in {} |-> <<>>]

(***************************************************************************)
(* parse_vmx                                                               *)
(***************************************************************************)
\* f.readline(): the line with its terminator; never "" before end of file
readline(f, n) == f[n] \o <<"\n">>

\* the key of an assignment: the text before the first "=", trimmed, lower-cased
vmx_key(text) == Lower(Strip(text))

\* a value handling that strips one layer of enclosing quotes and no more
vmx_value_one_layer(text) ==
    LET v == Strip(text) IN
    IF Len(v) >= 2 /\ v[1] = "\"" /\ v[Len(v)] = "\"" THEN SubSeq(v, 2, Len(v) - 1) ELSE v

\* the value of an assignment: value.strip().strip('"')
vmx_value(text) == StripChars(Strip(text), {"\""})

\* a store in which the first occurrence of a key wins
vmx_store_first(dict, name, value) ==
    IF name \in DOMAIN dict THEN dict ELSE Put(dict, name, value)

\* d[name] = value
vmx_store(dict, name, value) == Put(dict, name, value)

\* one iteration of the loop of parse_vmx over the line read
parse_vmx_line(dict, rawline) ==
    LET line == Strip(rawline) IN
    IF line = <<>> \/ line[1] = "#" \/ line[1] = "!"
    THEN dict
    ELSE LET offset == IndexOf(line, "=") IN
         IF offset < 0
         THEN dict
         ELSE vmx_store(dict, vmx_key(Slice(line, 0, offset)),
                        vmx_value(Slice(line, offset + 1, Len(line))))

RECURSIVE parse_vmx_from(_, _, _)
parse_vmx_from(f, n, dict) ==
    IF n > Len(f) THEN dict
    ELSE parse_vmx_from(f, n + 1, parse_vmx_line(dict, readline(f, n)))

\* parse_vmx(f, d) over a whole file, starting from the store d
parse_vmx(f, dict) == parse_vmx_from(f, 1, dict)

(***************************************************************************)
(* posixpath, over character sequences                                     *)
(***************************************************************************)
RECURSIVE SplitFrom(_, _, _)
SplitFrom(s, c, acc) ==
    IF s = <<>> THEN <<acc>>
    ELSE IF Head(s) = c THEN <<acc>> \o SplitFrom(Tail(s), c, <<>>)
    ELSE SplitFrom(Tail(s), c, Append(acc, Head(s)))

\* s.split(c): the pieces between occurrences of c, empty pieces included
Split(s, c) == SplitFrom(s, c, <<>>)

RECURSIVE JoinWith(_, _)
\* c.join(parts)
JoinWith(parts, c) ==
    IF parts = <<>> THEN <<>>
    ELSE IF Len(parts) = 1 THEN parts[1]
    ELSE parts[1] \o <<c>> \o JoinWith(Tail(parts), c)

\* p.rfind("/") + 1: the 0-based offset just after the last slash, 0 when none
AfterLastSlash(p) ==
    IF \E i \in 1..Len(p) : p[i] = "/"
    THEN CHOOSE i \in 1..Len(p) : p[i] = "/" /\ \A j \in (i + 1)..Len(p) : p[j] # "/"
    ELSE 0

\* os.path.isabs
isabs(s) == StartsWith(s, <<"/">>)

\* os.path.basename
basename(p) == Slice(p, AfterLastSlash(p), Len(p))

RECURSIVE RStripSlash(_)
RStripSlash(s) ==
    IF s # <<>> /\ s[Len(s)] = "/" THEN RStripSlash(SubSeq(s, 1, Len(s) - 1)) ELSE s

\* os.path.dirname
dirname(p) ==
    LET head == Slice(p, 0, AfterLastSlash(p)) IN
    IF head # <<>> /\ (\E i \in 1..Len(head) : head[i] # "/")
    THEN RStripSlash(head)
    ELSE head

\* os.path.join(a, b)
join(a, b) ==
    IF isabs(b) THEN b
    ELSE IF a = <<>> \/ a[Len(a)] = "/" THEN a \o b
    ELSE a \o <<"/">> \o b

RECURSIVE NormComps(_, _, _)
\* the component loop of os.path.normpath: drop "" and ".", resolve ".."
NormComps(comps, acc, absolute) ==
    IF comps = <<>> THEN acc
    ELSE LET c == Head(comps) IN
         IF c = <<>> \/ c = <<".">> THEN NormComps(Tail(comps), acc, absolute)
         ELSE IF c # <<".", ".">>
                 \/ (~absolute /\ acc = <<>>)
                 \/ (acc # <<>> /\ acc[Len(acc)] = <<".", ".">>)
              THEN NormComps(Tail(comps), Append(acc, c), absolute)
         ELSE IF acc # <<>>
              THEN NormComps(Tail(comps), SubSeq(acc, 1, Len(acc) - 1), absolute)
         ELSE NormComps(Tail(comps), acc, absolute)

\* os.path.normpath
normpath(path) ==
    IF path = <<>> THEN <<".">>
    ELSE LET slashes == IF ~isabs(path) THEN 0
                        ELSE IF StartsWith(path, <<"/", "/">>) /\ ~StartsWith(path, <<"/", "/", "/">>)
                             THEN 2 ELSE 1
             comps   == NormComps(Split(path, "/"), <<>>, slashes > 0)
             body    == JoinWith(comps, "/")
             lead    == [i \in 1..slashes |-> "/"]
         IN  IF lead \o body = <<>> THEN <<".">> ELSE lead \o body

\* the working directory of the process
cwd == <<"/","w">>

\* os.path.abspath
abspath(path) == normpath(join(cwd, path))

\* [x for x in abspath(p).split("/") if x]
PathList(p) == SelectSeq(Split(abspath(p), "/"), LAMBDA x : x # <<>>)

\* len(commonprefix([a, b])) over component lists
CommonLen(a, b) ==
    LET n == IF Len(a) < Len(b) THEN Len(a) ELSE Len(b)
        agree == {i \in 0..n : \A j \in 1..i : a[j] = b[j]}
    IN  CHOOSE i \in agree : \A k \in agree : k <= i

\* os.path.relpath(path, start)
relpath(path, start) ==
    LET start_list == PathList(start)
        path_list  == PathList(path)
        i          == CommonLen(start_list, path_list)
        rel_list   == [k \in 1..(Len(start_list) - i) |-> <<".", ".">>]
                      \o SubSeq(path_list, i + 1, Len(path_list))
    IN  IF rel_list = <<>> THEN <<".">> ELSE JoinWith(rel_list, "/")

(***************************************************************************)
(* The filesystem the resolver probes                                      *)
(***************************************************************************)
\* directories that exist whatever files there are: the root, the working
\* directory, and the output directory get_options creates with makedirs
ExtraDirs == {<<>>, <<<<"w">>>>, <<<<"o">>>>, <<<<"o">>, <<"v","m">>>>}

IsFile(comps) == comps \in fs

IsDir(comps) ==
    \/ comps \in ExtraDirs
    \/ comps \in created_dirs
    \/ \E f \in fs \cup ExtraDirs : Len(f) > Len(comps) /\ SubSeq(f, 1, Len(comps)) = comps

\* the directories os.makedirs(name, exist_ok=True) creates for the
\* directories of dirs: they and those of their parents that do not exist
missing_dirs(dirs) ==
    {c \in UNION {{SubSeq(dd, 1, k) : k \in 1..Len(dd)} : dd \in dirs} : ~IsDir(c)}

RECURSIVE ResolveFrom(_, _)
\* path resolution by the kernel: every component is looked up in a directory
ResolveFrom(comps, cur) ==
    IF comps = <<>> THEN [ok |-> TRUE, at |-> cur]
    ELSE IF ~IsDir(cur) THEN [ok |-> FALSE, at |-> cur]
    ELSE LET c == Head(comps) IN
         IF c = <<>> \/ c = <<".">> THEN ResolveFrom(Tail(comps), cur)
         ELSE IF c = <<".", ".">>
              THEN ResolveFrom(Tail(comps),
                               IF cur = <<>> THEN cur ELSE SubSeq(cur, 1, Len(cur) - 1))
         ELSE IF IsFile(Append(cur, c)) \/ IsDir(Append(cur, c))
              THEN ResolveFrom(Tail(comps), Append(cur, c))
         ELSE [ok |-> FALSE, at |-> cur]

Resolve(path) == ResolveFrom(Split(join(cwd, path), "/"), <<>>)

\* os.path.exists
exists(path) == path # <<>> /\ Resolve(path).ok

\* the subdirectories of directory dir, in listing order
ListDirs(dir) == SelectSeq(scan, LAMBDA n : IsDir(Append(dir, n)))

RECURSIVE Walk(_, _, _), WalkDirs(_, _, _, _)
\* os.walk top-down from root (the path as text) at dir (the directory it names):
\* the files of a directory are looked at before its subdirectories are entered
Walk(root, dir, name) ==
    IF IsFile(Append(dir, name)) THEN join(root, name)
    ELSE WalkDirs(root, dir, name, ListDirs(dir))

WalkDirs(root, dir, name, subs) ==
    IF subs = <<>> THEN <<>>
    ELSE LET found == Walk(join(root, Head(subs)), Append(dir, Head(subs)), name) IN
         IF found # <<>> THEN found ELSE WalkDirs(root, dir, name, Tail(subs))

\* walk_find: "" when sourcepath is no directory or holds no file of that name
walk_find(sourcepath, name) ==
    LET top == Resolve(sourcepath) IN
    IF sourcepath = <<>> \/ ~top.ok \/ ~IsDir(top.at) THEN <<>>
    ELSE Walk(sourcepath, top.at, name)

(***************************************************************************)
(* The file reference resolver                                             *)
(***************************************************************************)
\* Python's None: no character sequence equals it
None == <<"<None>">>

NoPaths == <<None, None>>

\* all(paths): every element is neither None nor the empty string
all(p) == \A i \in 1..Len(p) : p[i] # None /\ p[i] # <<>>

\* img_file_ext
img_file_ext(r) == IF r THEN <<"r","a","w">> ELSE <<"q","c","o","w","2">>

\* find_file_ref(name, match, datastore, recurse)
find_file_ref(name, match, datastore, recurse) ==
    LET sourcepath == match
        pathname   == join(sourcepath, name)
        sourcefile == IF exists(pathname) THEN pathname
                      ELSE IF recurse THEN walk_find(sourcepath, name)
                      ELSE <<>>
    IN  IF sourcefile = <<>> THEN NoPaths
        ELSE <<sourcefile, join(datastore.tgt, relpath(sourcefile, datastore.src))>>

\* datastores[key]
DsGet(ds, key) == ds[CHOOSE i \in 1..Len(ds) : ds[i].ref = key]

\* one character of a pattern against one character of the text: "." matches
\* any character but a newline, every other character of the alphabets used
\* here matches itself
ReMatchChar(p, c) == IF p = "." THEN c # "\n" ELSE p = c

\* re.subn("^" + pattern, repl, text, count=1): <<result, n>>
re_subn_prefix(pattern, repl, text) ==
    IF Len(pattern) <= Len(text) /\ \A i \in 1..Len(pattern) : ReMatchChar(pattern[i], text[i])
    THEN <<repl \o SubSeq(text, Len(pattern) + 1, Len(text)), 1>>
    ELSE <<text, 0>>

\* the user datastores of the table, in table order
UserRefs(ds) == SelectSeq(ds, LAMBDA e : e.ref \notin {<<".">>, <<".", ".">>})

\* the loop over the user datastores: the first entry whose ref matches the
\* directory of the reference is searched, recursively, and the loop ends
RECURSIVE SearchUser(_, _, _, _)
SearchUser(entries, dir, name, found) ==
    IF entries = <<>> THEN found
    ELSE LET e == Head(entries)
             m == re_subn_prefix(e.ref, e.src, dir)
         IN  IF m[2] = 1 THEN find_file_ref(name, m[1], e, TRUE)
             ELSE SearchUser(Tail(entries), dir, name, found)

\* the candidates in the order '..' first, then '.', then the user datastores
ref_candidates_dotdot_first(s, ds) ==
    LET name == basename(s)
        p1 == find_file_ref(name, DsGet(ds, <<".", ".">>).src, DsGet(ds, <<".", ".">>), FALSE)
        p2 == IF ~all(p1) /\ ~isabs(s)
              THEN find_file_ref(name, DsGet(ds, <<".">>).src, DsGet(ds, <<".">>), FALSE)
              ELSE p1
    IN  IF ~all(p2) THEN SearchUser(UserRefs(ds), dirname(s), name, p2) ELSE p2

\* the candidates of parse_filename_ref: '.' for a relative reference, then
\* the user datastores, then '..'; the pair found, or NoPaths
ref_candidates(s, ds) ==
    LET name == basename(s)
        p1 == IF ~isabs(s)
              THEN find_file_ref(name, DsGet(ds, <<".">>).src, DsGet(ds, <<".">>), FALSE)
              ELSE NoPaths
        p2 == IF ~all(p1) THEN SearchUser(UserRefs(ds), dirname(s), name, p1) ELSE p1
    IN  IF ~all(p2)
        THEN find_file_ref(name, DsGet(ds, <<".", ".">>).src, DsGet(ds, <<".", ".">>), FALSE)
        ELSE p2

\* re.subn(r"\.vmdk$", ...) without re.IGNORECASE
re_subn_vmdk_case(ext, text) ==
    IF EndsWith(text, <<".","v","m","d","k">>)
    THEN <<SubSeq(text, 1, Len(text) - 5) \o <<".">> \o ext, 1>>
    ELSE <<text, 0>>

\* re.subn(r"\.vmdk$", "." + ext, text, count=1, flags=re.IGNORECASE): <<result, n>>
re_subn_vmdk(ext, text) ==
    IF EndsWith(Lower(text), <<".","v","m","d","k">>)
    THEN <<SubSeq(text, 1, Len(text) - 5) \o <<".">> \o ext, 1>>
    ELSE <<text, 0>>

\* the end of parse_filename_ref when a missing file is returned, not fatal
ref_result_no_exit(p, translate_disk, r) ==
    IF ~all(p) THEN [exit |-> FALSE, paths |-> NoPaths]
    ELSE IF translate_disk
    THEN LET m == re_subn_vmdk(img_file_ext(r), p[2]) IN
         [exit |-> FALSE, paths |-> <<p[1], IF m[2] = 1 THEN m[1] ELSE p[2]>>]
    ELSE [exit |-> FALSE, paths |-> p]

\* the end of parse_filename_ref: sys.exit(1) when nothing was found, else the
\* extension of the target is translated
ref_result(p, translate_disk, r) ==
    IF ~all(p) THEN [exit |-> TRUE, paths |-> NoPaths]
    ELSE IF translate_disk
    THEN LET m == re_subn_vmdk(img_file_ext(r), p[2]) IN
         [exit |-> FALSE, paths |-> <<p[1], IF m[2] = 1 THEN m[1] ELSE p[2]>>]
    ELSE [exit |-> FALSE, paths |-> p]

DevicePrefix == <<"/","v","m","f","s","/","d","e","v","i","c","e","s">>

\* parse_filename_ref(s, datastores, translate_disk, raw):
\* [exit |-> the process exited with status 1, paths |-> the pair returned]
parse_filename_ref(s, ds, translate_disk, r) ==
    IF s = <<>> THEN [exit |-> FALSE, paths |-> NoPaths]
    ELSE IF StartsWith(s, DevicePrefix) THEN [exit |-> FALSE, paths |-> NoPaths]
    ELSE ref_result(ref_candidates(s, ds), translate_disk, r)

(***************************************************************************)
(* Primitive decoders and translation tables                               *)
(***************************************************************************)
\* parse_boolean
parse_boolean(s) == Lower(s) = <<"t","r","u","e">>

\* translate(dictionary, s): "" for a string that is no key of the dictionary
translate(dictionary, s) == IF s \notin DOMAIN dictionary THEN <<>> ELSE dictionary[s]

\* translate_scsi_controller_model
translate_scsi_controller_model(model) ==
    translate(<<>> :> <<"b","u","s","l","o","g","i","c">>
              @@ <<"a","u","t","o">> :> <<"a","u","t","o">>
              @@ <<"l","s","i","l","o","g","i","c">> :> <<"l","s","i","l","o","g","i","c">>
              @@ <<"l","s","i","s","a","s","1","0","6","8">> :> <<"l","s","i","s","a","s","1","0","6","8">>
              @@ <<"p","v","s","c","s","i">> :> <<"v","i","r","t","i","o","-","s","c","s","i">>, model)

\* f"{n}" for a number 0 <= n <= 99
Str(n) ==
    LET digit == <<"0","1","2","3","4","5","6","7","8","9">> IN
    IF n < 10 THEN <<digit[n + 1]>> ELSE <<digit[(n \div 10) + 1], digit[(n % 10) + 1]>>

\* sub in s, for strings
Contains(s, sub) ==
    \E i \in 0..(Len(s) - Len(sub)) : SubSeq(s, i + 1, i + Len(sub)) = sub

(***************************************************************************)
(* Device enumerators: controllers and disks                               *)
(***************************************************************************)
\* the interface names of main, in the order of its dictionary
Interfaces == <<"scsi", "sata", "nvme", "ide">>

InterfaceChars == [scsi |-> <<"s","c","s","i">>, sata |-> <<"s","a","t","a">>, nvme |-> <<"n","v","m","e">>, ide |-> <<"i","d","e">>]

\* range(4) of controllers
NumControllers == 4

\* range(30) of units on a controller
NumUnits == 30

\* f"{interface}{x}" + field
CtrlKey(interface, x, field) == InterfaceChars[interface] \o Str(x) \o field

\* f"{interface}{x}:{y}" + field
DiskKey(interface, x, y, field) ==
    InterfaceChars[interface] \o Str(x) \o <<":">> \o Str(y) \o field

\* find_disk_controllers: x |-> record, for the controllers present
find_disk_controllers(dict, interface) ==
    LET present == {x \in 0..(NumControllers - 1) :
                        parse_boolean(Get(dict, CtrlKey(interface, x, <<".","p","r","e","s","e","n","t">>)))}
    IN  [x \in present |->
            [x |-> x,
             model |-> IF interface = "scsi"
                       THEN translate_scsi_controller_model(
                                Get(dict, CtrlKey(interface, x, <<".","v","i","r","t","u","a","l","d","e","v">>)))
                       ELSE <<>>]]

\* inspector_inspect: the OS name virt-inspector reports for a disk, "" when
\* it reports none or fails
inspector_inspect(path) == IF PathList(path) \in osfiles THEN <<"o","s">> ELSE <<>>

\* the units find_disks would visit if it required no controller to be present
disk_positions_any_controller(dict, interface, controllers) ==
    SelectSeq([k \in 1..(NumControllers * NumUnits) |-> <<(k - 1) \div NumUnits, (k - 1) % NumUnits>>],
              LAMBDA p : parse_boolean(Get(dict, DiskKey(interface, p[1], p[2], <<".","p","r","e","s","e","n","t">>))))

\* the units of disk_positions with the loop over the units as the outer one
disk_positions_unit_major(dict, interface, controllers) ==
    SelectSeq([k \in 1..(NumControllers * NumUnits) |-> <<(k - 1) % NumControllers, (k - 1) \div NumControllers>>],
              LAMBDA p : /\ (p[1] \in DOMAIN controllers \/ interface = "ide")
                         /\ parse_boolean(Get(dict, DiskKey(interface, p[1], p[2], <<".","p","r","e","s","e","n","t">>))))

\* the units find_disks does not skip, in the order of its two loops
disk_positions(dict, interface, controllers) ==
    SelectSeq([k \in 1..(NumControllers * NumUnits) |-> <<(k - 1) \div NumUnits, (k - 1) % NumUnits>>],
              LAMBDA p : /\ (p[1] \in DOMAIN controllers \/ interface = "ide")
                         /\ parse_boolean(Get(dict, DiskKey(interface, p[1], p[2], <<".","p","r","e","s","e","n","t">>))))

\* the body of the inner loop with a probe of every resolved .vmdk disk,
\* whatever the disk mode
disk_record_probing(dict, ds, interface, x, y, mode, r) ==
    CHOOSE rec \in
        {[exit |-> res.exit,
          probe |-> all(res.paths) /\ EndsWith(res.paths[1], <<".","v","m","d","k">>),
          disk |-> [bus |-> interface, x |-> x, y |-> y,
                    device |-> IF Contains(Lower(Get(dict, DiskKey(interface, x, y, <<".","d","e","v","i","c","e","t","y","p","e">>))),
                                           <<"c","d","r","o","m">>)
                               THEN "cdrom" ELSE "disk",
                    driver |-> "file",
                    cache |-> IF parse_boolean(Get(dict, DiskKey(interface, x, y, <<".","w","r","i","t","e","t","h","r","o","u","g","h">>)))
                              THEN "writethrough" ELSE "none",
                    path |-> res.paths,
                    os |-> IF all(res.paths) /\ EndsWith(res.paths[1], <<".","v","m","d","k">>)
                           THEN inspector_inspect(res.paths[1]) ELSE <<>>]] :
            res \in {parse_filename_ref(Get(dict, DiskKey(interface, x, y, <<".","f","i","l","e","n","a","m","e">>)),
                                        ds, mode # "none", r)}} : TRUE

\* the body of the inner loop of find_disks for unit y of controller x (the
\* singleton set binds the value parse_filename_ref returns)
disk_record(dict, ds, interface, x, y, mode, r) ==
    CHOOSE rec \in
        {[exit |-> res.exit,
          probe |-> all(res.paths) /\ mode = "convert" /\ EndsWith(res.paths[1], <<".","v","m","d","k">>),
          disk |-> [bus |-> interface, x |-> x, y |-> y,
                    device |-> IF Contains(Lower(Get(dict, DiskKey(interface, x, y, <<".","d","e","v","i","c","e","t","y","p","e">>))),
                                           <<"c","d","r","o","m">>)
                               THEN "cdrom" ELSE "disk",
                    driver |-> "file",
                    cache |-> IF parse_boolean(Get(dict, DiskKey(interface, x, y, <<".","w","r","i","t","e","t","h","r","o","u","g","h">>)))
                              THEN "writethrough" ELSE "none",
                    path |-> res.paths,
                    os |-> IF all(res.paths) /\ mode = "convert"
                              /\ EndsWith(res.paths[1], <<".","v","m","d","k">>)
                           THEN inspector_inspect(res.paths[1]) ELSE <<>>]] :
            res \in {parse_filename_ref(Get(dict, DiskKey(interface, x, y, <<".","f","i","l","e","n","a","m","e">>)),
                                        ds, mode # "none", r)}} : TRUE

\* the loops of find_disks over the units pos it does not skip, recs[i] being
\* the outcome of the body for pos[i]: the records are appended in that order
\* until parse_filename_ref ends the process, and an IDE controller is entered
\* for every unit reached
find_disks_over(pos, recs, interface, controllers) ==
    LET exits   == {i \in 1..Len(pos) : recs[i].exit}
        last    == IF exits = {} THEN Len(pos)
                   ELSE (CHOOSE i \in exits : \A j \in exits : i <= j) - 1
        reached == IF exits = {} THEN 1..Len(pos) ELSE 1..(last + 1)
        ide     == {pos[i][1] : i \in reached}
    IN  [exit |-> exits # {},
         disks |-> [i \in 1..last |-> recs[i].disk],
         probed |-> [i \in 1..last |-> recs[i].probe],
         controllers |->
             IF interface = "ide"
             THEN [k \in (DOMAIN controllers) \cup ide |->
                      IF k \in ide THEN [x |-> k, model |-> <<>>] ELSE controllers[k]]
             ELSE controllers]

\* the outcomes of the body of the inner loop for the units pos
disk_records(pos, dict, ds, interface, mode, r) ==
    CHOOSE recs \in {[i \in 1..Len(pos) |->
                         disk_record(dict, ds, interface, pos[i][1], pos[i][2], mode, r)]} : TRUE

\* find_disks: [exit |-> parse_filename_ref ended the process,
\*              disks |-> the records, probed |-> for each, inspector_inspect was
\*              called, controllers |-> the controllers afterwards]
\* (the units and the outcomes are bound once, as values, by singleton sets)
find_disks(dict, ds, interface, controllers, mode, r) ==
    CHOOSE out \in {find_disks_over(pos, disk_records(pos, dict, ds, interface, mode, r),
                                    interface, ctl) :
                        pos \in {disk_positions(dict, interface, controllers)},
                        ctl \in {controllers}} : TRUE

(***************************************************************************)
(* Device enumerators: Ethernet adapters                                   *)
(***************************************************************************)
\* range(10) of adapters
NumEths == 10

\* parse_eth_type
parse_eth_type(eth_type) ==
    translate(<<>> :> <<>>
              @@ <<"b","r","i","d","g","e","d">> :> <<"b","r","i","d","g","e","d">> @@ <<"v","m","n","e","t","0">> :> <<"b","r","i","d","g","e","d">>
              @@ <<"h","o","s","t","o","n","l","y">> :> <<"h","o","s","t","o","n","l","y">> @@ <<"v","m","n","e","t","1">> :> <<"h","o","s","t","o","n","l","y">>
              @@ <<"n","a","t">> :> <<"n","a","t">> @@ <<"v","m","n","e","t","8">> :> <<"n","a","t">>, eth_type)

\* translate_eth_type: the default type mapping
translate_eth_type(eth_type, sbox) ==
    translate(<<>> :> <<>>
              @@ <<"b","r","i","d","g","e","d">> :> <<"b","r","i","d","g","e">>
              @@ <<"h","o","s","t","o","n","l","y">> :> (<<"n","e","t","w","o","r","k","=">> \o sbox)
              @@ <<"n","a","t">> :> <<"n","e","t","w","o","r","k","=","d","e","f","a","u","l","t">>, eth_type)

\* translate_eth_model
translate_eth_model(model) ==
    translate(<<>> :> <<>>
              @@ <<"v","l","a","n","c","e">> :> <<"p","c","n","e","t">>
              @@ <<"e","1","0","0","0">> :> <<"e","1","0","0","0">>
              @@ <<"e","1","0","0","0","e">> :> <<"e","1","0","0","0","e">>
              @@ <<"v","m","x","n","e","t">> :> <<"v","i","r","t","i","o","-","n","e","t">>
              @@ <<"v","m","x","n","e","t","2">> :> <<"v","i","r","t","i","o","-","n","e","t">>
              @@ <<"v","m","x","n","e","t","3">> :> <<"v","i","r","t","i","o","-","n","e","t">>, model)

\* translate_eth_address_type
translate_eth_address_type(addr_type) ==
    translate(<<>> :> <<>>
              @@ <<"v","p","x">> :> <<".","g","e","n","e","r","a","t","e","d","a","d","d","r","e","s","s">>
              @@ <<"g","e","n","e","r","a","t","e","d">> :> <<".","g","e","n","e","r","a","t","e","d","a","d","d","r","e","s","s">>
              @@ <<"s","t","a","t","i","c">> :> <<".","a","d","d","r","e","s","s">>, addr_type)

Star == <<"*">>

\* a lookup in one of the two user tables, themselves plain dictionaries:
\* table[key] when key is there, else table["*"], which raises KeyError when
\* the table has no "*" entry
user_net_lookup(table, key) ==
    IF key \in DOMAIN table THEN [crash |-> FALSE, onet |-> table[key]]
    ELSE IF Star \notin DOMAIN table THEN [crash |-> TRUE, onet |-> <<>>]
    ELSE [crash |-> FALSE, onet |-> table[Star]]

\* the target network of one adapter
eth_network(eth_name, eth_type, nets, sbox) ==
    LET byName == IF eth_name # <<>> /\ DOMAIN nets.name # {}
                  THEN user_net_lookup(nets.name, eth_name)
                  ELSE [crash |-> FALSE, onet |-> <<>>]
        byType == IF byName.onet = <<>> /\ DOMAIN nets.type # {}
                  THEN user_net_lookup(nets.type, eth_type)
                  ELSE byName
        builtin == IF byType.onet = <<>> /\ eth_type # <<>>
                   THEN translate_eth_type(eth_type, sbox)
                   ELSE byType.onet
    IN  IF byName.crash \/ byType.crash THEN [crash |-> TRUE, onet |-> <<>>]
        ELSE [crash |-> FALSE, onet |-> IF builtin = <<>> THEN <<"b","r","i","d","g","e">> ELSE builtin]

\* the body of the loop of find_eths for adapter x
eth_record(dict, interface, x, nets, sbox) ==
    LET s         == interface \o Str(x)
        eth_type  == parse_eth_type(Get(dict, s \o <<".","c","o","n","n","e","c","t","i","o","n","t","y","p","e">>))
        eth_name  == Get(dict, s \o <<".","n","e","t","w","o","r","k","n","a","m","e">>)
        net       == eth_network(eth_name, eth_type, nets, sbox)
        addr_type == translate_eth_address_type(Get(dict, s \o <<".","a","d","d","r","e","s","s","t","y","p","e">>))
        mac       == IF addr_type # <<>> THEN Get(dict, s \o addr_type)
                     ELSE IF Get(dict, s \o <<".","a","d","d","r","e","s","s">>) # <<>> THEN Get(dict, s \o <<".","a","d","d","r","e","s","s">>)
                     ELSE Get(dict, s \o <<".","g","e","n","e","r","a","t","e","d","a","d","d","r","e","s","s">>)
    IN  [crash |-> net.crash,
         eth |-> [x |-> Str(x), type |-> net.onet,
                  model |-> translate_eth_model(Get(dict, s \o <<".","v","i","r","t","u","a","l","d","e","v">>)),
                  mac |-> mac, addr_type |-> addr_type]]

RECURSIVE find_eths_from(_, _, _, _, _, _)
find_eths_from(x, dict, interface, nets, sbox, acc) ==
    IF x >= NumEths THEN [crash |-> FALSE, eths |-> acc]
    ELSE IF ~parse_boolean(Get(dict, interface \o Str(x) \o <<".","p","r","e","s","e","n","t">>))
    THEN find_eths_from(x + 1, dict, interface, nets, sbox, acc)
    ELSE LET rec == eth_record(dict, interface, x, nets, sbox) IN
         IF rec.crash THEN [crash |-> TRUE, eths |-> acc]
         ELSE find_eths_from(x + 1, dict, interface, nets, sbox, Append(acc, rec.eth))

\* find_eths: [crash |-> a KeyError ended the run, eths |-> the records]
find_eths(dict, interface, nets, sbox) == find_eths_from(0, dict, interface, nets, sbox, <<>>)

(***************************************************************************)
(* get_options: the network mapping tables                                 *)
(***************************************************************************)
NoNetworks == [name |-> EmptyDict, type |-> EmptyDict]

\* one -n [type:|name:]INET=ONET argument
network_arg(nets, arg) ==
    LET byEq    == Partition(arg, "=")
        byCl    == Partition(byEq[1], ":")
        prefix  == IF byCl[2] THEN byCl[1] ELSE <<"n","a","m","e">>
        netinet == IF byCl[2] THEN byCl[3] ELSE byEq[1]
    IN  IF prefix = <<"n","a","m","e">>
        THEN [exit |-> FALSE, nets |-> [nets EXCEPT !.name = Put(nets.name, netinet, byEq[3])]]
        ELSE IF prefix = <<"t","y","p","e">>
        THEN [exit |-> FALSE, nets |-> [nets EXCEPT !.type = Put(nets.type, netinet, byEq[3])]]
        ELSE [exit |-> TRUE, nets |-> nets]

RECURSIVE get_networks_from(_, _)
get_networks_from(nets, args) ==
    IF args = <<>> THEN [exit |-> FALSE, nets |-> nets]
    ELSE LET r == network_arg(nets, Head(args)) IN
         IF r.exit THEN r ELSE get_networks_from(r.nets, Tail(args))

\* the tables get_options builds from the -n arguments
get_networks(args) == get_networks_from(NoNetworks, args)

(***************************************************************************)
(* main and the command assembler                                          *)
(***************************************************************************)
\* main: sysinfo, from the key as the source spells it
main_sysinfo(dict) ==
    IF parse_boolean(Get(dict, <<"s","m","b","i","o","s",".","r","e","f","l","e","c","t","H","o","s","t">>)) THEN <<"h","o","s","t">> ELSE <<>>

\* the decimal digits
Digits == <<"0","1","2","3","4","5","6","7","8","9">>

IsDigit(c) == \E i \in DOMAIN Digits : Digits[i] = c

DigitValue(c) == (CHOOSE i \in DOMAIN Digits : Digits[i] = c) - 1

\* int(s) reads s as [ok |-> s is a decimal literal, neg |-> it has a minus
\* sign, digits |-> its digits]: surrounding whitespace is dropped, a sign may
\* lead, and single underscores may stand between digits
int_literal(s) ==
    LET t    == Strip(s)
        body == IF t # <<>> /\ t[1] \in {"+", "-"} THEN Tail(t) ELSE t
    IN  [ok |-> /\ body # <<>>
                /\ \A i \in 1..Len(body) : IsDigit(body[i]) \/ body[i] = "_"
                /\ body[1] # "_" /\ body[Len(body)] # "_"
                /\ \A i \in 1..(Len(body) - 1) : ~(body[i] = "_" /\ body[i + 1] = "_"),
         neg |-> t # <<>> /\ t[1] = "-",
         digits |-> SelectSeq(body, IsDigit)]

RECURSIVE digits_value(_)
\* the number a sequence of decimal digits denotes
digits_value(ds) ==
    IF ds = <<>> THEN 0
    ELSE 10 * digits_value(SubSeq(ds, 1, Len(ds) - 1)) + DigitValue(ds[Len(ds)])

\* int(s or default): [ok |-> no ValueError, val |-> the integer]
int_or(s, default) ==
    IF s = <<>> THEN [ok |-> TRUE, val |-> default]
    ELSE IF ~int_literal(s).ok THEN [ok |-> FALSE, val |-> 0]
    ELSE [ok |-> TRUE,
          val |-> IF int_literal(s).neg THEN 0 - digits_value(int_literal(s).digits)
                  ELSE digits_value(int_literal(s).digits)]

(***************************************************************************)
(* parse_genid. A Python int has no width: the integers of the generation  *)
(* ID are kept as a sign and a magnitude written in base 16, most          *)
(* significant digit first and without leading zeros, so that 64-bit       *)
(* values are computed digit by digit.                                     *)
(***************************************************************************)
\* the hexadecimal digits of format specifier x
HexChars == <<"0","1","2","3","4","5","6","7","8","9","a","b","c","d","e","f">>

\* the hexadecimal digits of a 64-bit value
HexWidth == 16

RECURSIVE hex_times_plus(_, _, _)
\* h * m + a on a magnitude in base 16, for a < 16
hex_times_plus(h, m, a) ==
    IF h = <<>> THEN (IF a = 0 THEN <<>> ELSE <<a>>)
    ELSE Append(hex_times_plus(SubSeq(h, 1, Len(h) - 1), m, (h[Len(h)] * m + a) \div 16),
                (h[Len(h)] * m + a) % 16)

RECURSIVE hex_of_digits(_)
\* the magnitude a sequence of decimal digits denotes
hex_of_digits(ds) ==
    IF ds = <<>> THEN <<>>
    ELSE hex_times_plus(hex_of_digits(SubSeq(ds, 1, Len(ds) - 1)), 10, DigitValue(ds[Len(ds)]))

\* int(s or 0) without width: [ok |-> no ValueError, neg |-> the integer is
\* negative, mag |-> its magnitude]
bigint_or_zero(s) ==
    IF s = <<>> THEN [ok |-> TRUE, neg |-> FALSE, mag |-> <<>>]
    ELSE IF ~int_literal(s).ok THEN [ok |-> FALSE, neg |-> FALSE, mag |-> <<>>]
    ELSE [ok |-> TRUE,
          neg |-> int_literal(s).neg /\ hex_of_digits(int_literal(s).digits) # <<>>,
          mag |-> hex_of_digits(int_literal(s).digits)]

\* struct.pack('>q', n) accepts n: -2^63 <= n < 2^63
fits_q(n) ==
    \/ Len(n.mag) < HexWidth
    \/ /\ Len(n.mag) = HexWidth
       /\ \/ n.mag[1] < 8
          \/ n.neg /\ n.mag = <<8>> \o [i \in 1..(HexWidth - 1) |-> 0]

\* the magnitude on HexWidth digits, zeros leading
zero_padded(mag) == [i \in 1..(HexWidth - Len(mag)) |-> 0] \o mag

\* struct.unpack('>Q', struct.pack('>q', n)): the HexWidth digits of n modulo
\* 2^64, the two's complement of a negative n
unsigned_q(n) ==
    IF ~n.neg THEN zero_padded(n.mag)
    ELSE hex_times_plus([i \in 1..HexWidth |-> 15 - zero_padded(n.mag)[i]], 1, 1)

\* f"{u:016x}"
format_016x(u) == [i \in 1..Len(u) |-> HexChars[u[i] + 1]]

\* a parse_genid that takes the magnitude of a negative field for its bits
parse_genid_magnitude(id, idx) ==
    IF id.mag = <<>> /\ idx.mag = <<>> THEN [error |-> "", genid |-> <<>>]
    ELSE IF ~fits_q(id) \/ ~fits_q(idx) THEN [error |-> "struct.error", genid |-> <<>>]
    ELSE CHOOSE out \in
        {[error |-> "",
          genid |-> Slice(t, 0, 8) \o <<"-">> \o Slice(t, 8, 12) \o <<"-">> \o Slice(t, 12, 16)
                    \o <<"-">> \o Slice(t, 16, 20) \o <<"-">> \o Slice(t, 20, 32)] :
            t \in {format_016x(zero_padded(idx.mag)) \o format_016x(zero_padded(id.mag))}} : TRUE

\* parse_genid(genid, genidx): [error |-> the exception raised, "" when none,
\* genid |-> the string returned]
parse_genid(id, idx) ==
    IF id.mag = <<>> /\ idx.mag = <<>> THEN [error |-> "", genid |-> <<>>]
    ELSE IF ~fits_q(id) \/ ~fits_q(idx) THEN [error |-> "struct.error", genid |-> <<>>]
    ELSE CHOOSE out \in
        {[error |-> "",
          genid |-> Slice(t, 0, 8) \o <<"-">> \o Slice(t, 8, 12) \o <<"-">> \o Slice(t, 12, 16)
                    \o <<"-">> \o Slice(t, 16, 20) \o <<"-">> \o Slice(t, 20, 32)] :
            t \in {format_016x(unsigned_q(idx)) \o format_016x(unsigned_q(id))}} : TRUE

\* main: memsize and the generation ID:
\* [error |-> the exception raised, "" when none, memory, genid]
main_genid(dict) ==
    CHOOSE out \in
        {IF ~m.ok \/ ~id.ok \/ ~idx.ok THEN [error |-> "ValueError", memory |-> 0, genid |-> <<>>]
         ELSE [error |-> parse_genid(id, idx).error, memory |-> m.val,
               genid |-> parse_genid(id, idx).genid] :
            m \in {int_or(Get(dict, <<"m","e","m","s","i","z","e">>), 1024)},
            id \in {bigint_or_zero(Get(dict, <<"v","m",".","g","e","n","i","d">>))},
            idx \in {bigint_or_zero(Get(dict, <<"v","m",".","g","e","n","i","d","x">>))}} : TRUE

\* max(a, b)
max(a, b) == IF a >= b THEN a ELSE b

\* a // b for b > 0: the floor of the quotient
floordiv(a, b) == a \div b

\* no topology yet
NoTopology == [vcpus |-> 0, sockets |-> 0, cores |-> 0, threads |-> 0]

\* the topology main would hand over if it did not assert the product
main_topology_unasserted(dict) ==
    CHOOSE out \in
        {IF ~v.ok \/ ~c.ok THEN [error |-> "ValueError", topology |-> NoTopology]
         ELSE [error |-> "",
               topology |-> [vcpus |-> max(v.val, 1),
                             sockets |-> max(floordiv(max(v.val, 1), max(c.val, 1)), 1),
                             cores |-> max(c.val, 1),
                             threads |-> 1]] :
            v \in {int_or(Get(dict, <<"n","u","m","v","c","p","u","s">>), 0)},
            c \in {int_or(Get(dict, <<"c","p","u","i","d",".","c","o","r","e","s","p","e","r","s","o","c","k","e","t">>), 0)}} : TRUE

\* a topology of one core per socket, whatever cpuid.corespersocket says
main_topology_flat(dict) ==
    [error |-> main_topology_unasserted(dict).error,
     topology |-> [main_topology_unasserted(dict).topology EXCEPT
                      !.sockets = main_topology_unasserted(dict).topology.vcpus,
                      !.cores = IF main_topology_unasserted(dict).error = "" THEN 1 ELSE 0]]

\* main: the socket/core/thread triple from numvcpus and cpuid.corespersocket:
\* [error |-> the exception raised, "" when none, topology |-> the triple]
main_topology(dict) ==
    CHOOSE out \in
        {IF ~v.ok \/ ~c.ok THEN [error |-> "ValueError", topology |-> NoTopology]
         ELSE IF max(v.val, 1) # max(floordiv(max(v.val, 1), max(c.val, 1)), 1) * max(c.val, 1)
         THEN [error |-> "AssertionError", topology |-> NoTopology]
         ELSE [error |-> "",
               topology |-> [vcpus |-> max(v.val, 1),
                             sockets |-> max(floordiv(max(v.val, 1), max(c.val, 1)), 1),
                             cores |-> max(c.val, 1),
                             threads |-> 1]] :
            v \in {int_or(Get(dict, <<"n","u","m","v","c","p","u","s">>), 0)},
            c \in {int_or(Get(dict, <<"c","p","u","i","d",".","c","o","r","e","s","p","e","r","s","o","c","k","e","t">>), 0)}} : TRUE

\* find_sound
find_sound(dict) ==
    IF ~parse_boolean(Get(dict, <<"s","o","u","n","d",".","p","r","e","s","e","n","t">>)) THEN <<>>
    ELSE IF parse_boolean(Get(dict, <<"s","o","u","n","d",".","a","u","t","o","d","e","t","e","c","t">>)) THEN <<"d","e","f","a","u","l","t">>
    ELSE translate(<<>> :> <<"d","e","f","a","u","l","t">>
                   @@ <<"e","s","1","3","7","1">> :> <<"e","s","1","3","7","0">>
                   @@ <<"h","d","a","u","d","i","o">> :> <<"h","d","a">>
                   @@ <<"s","b","1","6">> :> <<"s","b","1","6">>, Get(dict, <<"s","o","u","n","d",".","v","i","r","t","u","a","l","d","e","v">>))

\* the runs of virt-inspector that find_disks made for the records
inspector_runs(dsks, probed) ==
    [i \in 1..Len(SelectSeq([k \in 1..Len(dsks) |-> k], LAMBDA k : probed[k])) |->
        [tool |-> "virt-inspector",
         src |-> dsks[SelectSeq([k \in 1..Len(dsks) |-> k], LAMBDA k : probed[k])[i]].path[1],
         adj |-> "none"]]

\* range(2) of floppy drives
NumFloppys == 2

\* the seconds a boot test is followed for
MaxClock == 3

\* the values of --timeout of the boot tests: none, and two seconds
BootTimeouts == {0, 2}

\* convert_path without the replacement of the modes for a disk with no
\* operating system
effective_modes_kept(conv, adj, osname) == [conv |-> conv, adj |-> adj]

\* convert_path: the conversion and adjustment modes used for a .vmdk disk
\* whose inspection named the operating system osname
effective_modes(conv, adj, osname) ==
    IF osname # <<>> THEN [conv |-> conv, adj |-> adj]
    ELSE [conv |-> IF conv = "v2v" THEN "y" ELSE conv, adj |-> "none"]

\* a convert_path that opens the pseudo disk for writing, existing or not
convert_path_truncating(srcpath, tgtpath, mode, conv, adj, osname, ok, same, files) ==
    IF tgtpath = None
    THEN [crash |-> TRUE, fail |-> "", files |-> files, runs |-> <<>>, wrote |-> ""]
    ELSE [crash |-> FALSE, fail |-> "", files |-> files \cup {PathList(tgtpath)}, runs |-> <<>>,
          wrote |-> "empty"]

\* the program that img_v2v_convert, img_qemu_convert and
\* img_qemu_nbd_convert run on the source file
ConversionTool == [v2v |-> "virt-v2v", x |-> "qemu-img", y |-> "qemu-nbd"]

\* the exception or exit that ends the run when the program fails
ConversionFailure == [v2v |-> "exit1", x |-> "CalledProcessError", y |-> "CalledProcessError"]

\* convert_path up to its effect on the host's files; ok is the outcome of
\* the conversion program and same the outcome of filecmp.cmp:
\* [crash |-> an exception ended the run before anything was done,
\*  fail  |-> the exit or exception of a failed conversion ("" when none),
\*  files |-> the files afterwards,
\*  runs  |-> the programs run, with adj the mode adjust_guestfs was called
\*            with ("none" when it was not called),
\*  wrote |-> what was put at tgtpath: "empty", "image", "copy" or ""]
convert_path(srcpath, tgtpath, mode, conv, adj, osname, ok, same, files) ==
    IF tgtpath = None
    THEN [crash |-> TRUE, fail |-> "", files |-> files, runs |-> <<>>, wrote |-> ""]
    ELSE IF mode # "convert"
    THEN [crash |-> FALSE, fail |-> "", files |-> files \cup {PathList(tgtpath)}, runs |-> <<>>,
          wrote |-> IF PathList(tgtpath) \in files THEN "" ELSE "empty"]
    ELSE IF EndsWith(srcpath, <<".","v","m","d","k">>)
    THEN LET m == effective_modes(conv, adj, osname) IN
         [crash |-> FALSE,
          fail  |-> IF ok THEN "" ELSE ConversionFailure[m.conv],
          files |-> IF ok THEN files \cup {PathList(tgtpath)} ELSE files,
          runs  |-> <<[tool |-> ConversionTool[m.conv], src |-> srcpath,
                       adj |-> IF m.conv = "v2v" THEN "none" ELSE m.adj]>>,
          wrote |-> IF ok THEN "image" ELSE ""]
    ELSE IF tgtpath # srcpath /\ ~(PathList(tgtpath) \in files /\ same)
    THEN [crash |-> FALSE, fail |-> "", files |-> files \cup {PathList(tgtpath)},
          runs |-> <<[tool |-> "copy2", src |-> srcpath, adj |-> "none"]>>, wrote |-> "copy"]
    ELSE [crash |-> FALSE, fail |-> "", files |-> files, runs |-> <<>>, wrote |-> ""]

\* the outcomes the conversion program can have in a call of convert_path
ToolOutcomes(srcpath, tgtpath, mode) ==
    IF tgtpath # None /\ mode = "convert" /\ EndsWith(srcpath, <<".","v","m","d","k">>) THEN BOOLEAN ELSE {TRUE}

\* the outcomes filecmp.cmp can have in a call of convert_path
CmpOutcomes(srcpath, tgtpath, mode, files) ==
    IF /\ tgtpath # None
       /\ mode = "convert"
       /\ ~EndsWith(srcpath, <<".","v","m","d","k">>)
       /\ tgtpath # srcpath
       /\ PathList(tgtpath) \in files
    THEN BOOLEAN ELSE {FALSE}

(***************************************************************************)
(* virt_install: the argument list                                         *)
(***************************************************************************)
\* f"{n}" for a number n >= 0
RECURSIVE format_d(_)
format_d(n) ==
    IF n < 10 THEN <<Digits[n + 1]>> ELSE format_d(n \div 10) \o <<Digits[(n % 10) + 1]>>

\* the text of the words the records hold
Text ==
    InterfaceChars @@ [cdrom |-> <<"c","d","r","o","m">>, disk |-> <<"d","i","s","k">>, file |-> <<"f","i","l","e">>,
                       none |-> <<"n","o","n","e">>, writethrough |-> <<"w","r","i","t","e","t","h","r","o","u","g","h">>]

\* parse_vm_affinity
parse_vm_affinity(s) == IF s = <<>> \/ Lower(s) = <<"a","l","l">> THEN <<>> ELSE s

\* main: the firmware string, for a virt-install of version v tenths
main_uefi(dict, v) ==
    IF Get(dict, <<"f","i","r","m","w","a","r","e">>) # <<"e","f","i">> THEN <<>>
    ELSE IF v < 40 THEN <<"u","e","f","i">>
    ELSE IF parse_boolean(Get(dict, <<"u","e","f","i",".","s","e","c","u","r","e","b","o","o","t",".","e","n","a","b","l","e","d">>))
    THEN <<"u","e","f","i",",","f","i","r","m","w","a","r","e",".","f","e","a","t","u","r","e","0",".","n","a","m","e","=","s","e","c","u","r","e","-","b","o","o","t",",","f","i","r","m","w","a","r","e",".","f","e","a","t","u","r","e","0",".","e","n","a","b","l","e","d","=","y","e","s">>
    ELSE <<"u","e","f","i",",","f","i","r","m","w","a","r","e",".","f","e","a","t","u","r","e","0",".","n","a","m","e","=","s","e","c","u","r","e","-","b","o","o","t",",","f","i","r","m","w","a","r","e",".","f","e","a","t","u","r","e","0",".","e","n","a","b","l","e","d","=","n","o">>

\* virt_install: the general section and the main VM information
vm_args(v, domainname, fid, dict, mem, topo) ==
    << <<"v","i","r","t","-","i","n","s","t","a","l","l">>, <<"-","-","p","r","i","n","t","-","x","m","l">>, <<"-","-","d","r","y","-","r","u","n">>, <<"-","-","n","o","a","u","t","o","c","o","n","s","o","l","e">>, <<"-","-","c","h","e","c","k">>, <<"a","l","l","=","o","f","f">>,
       <<"-","-","v","i","r","t","-","t","y","p","e">>, <<"k","v","m">>,
       <<"-","-","m","a","c","h","i","n","e">>, IF main_uefi(dict, v) # <<>> THEN <<"q","3","5">> ELSE <<"p","c">> >>
    \o (IF v >= 40 THEN << <<"-","-","o","s","-","v","a","r","i","a","n","t">>, <<"d","e","t","e","c","t","=","o","n",",","r","e","q","u","i","r","e","=","o","f","f">> >> ELSE <<>>)
    \o << <<"-","-","n","a","m","e">>, domainname >>
    \o (IF Get(dict, <<"d","i","s","p","l","a","y","n","a","m","e">>) # <<>>
        THEN << <<"-","-","m","e","t","a","d","a","t","a">>, <<"t","i","t","l","e","=">> \o Get(dict, <<"d","i","s","p","l","a","y","n","a","m","e">>) >> ELSE <<>>)
    \o (IF Get(dict, <<"a","n","n","o","t","a","t","i","o","n">>) # <<>>
        THEN << <<"-","-","m","e","t","a","d","a","t","a">>, <<"d","e","s","c","r","i","p","t","i","o","n","=">> \o Get(dict, <<"a","n","n","o","t","a","t","i","o","n">>) >> ELSE <<>>)
    \o << <<"-","-","m","e","m","o","r","y">>, format_d(mem) >>
    \o << <<"-","-","c","p","u">>, <<"h","o","s","t","-","p","a","s","s","t","h","r","o","u","g","h">> \o (IF v >= 40 THEN <<",","c","h","e","c","k","=","n","o","n","e",",","m","i","g","r","a","t","a","b","l","e","=","o","n">> ELSE <<>>) >>
    \o << <<"-","-","v","c","p","u","s">>,
          format_d(topo.vcpus) \o <<",","s","o","c","k","e","t","s","=">> \o format_d(topo.sockets)
              \o <<",","c","o","r","e","s","=">> \o format_d(topo.cores) \o <<",","t","h","r","e","a","d","s","=">> \o format_d(topo.threads)
              \o (IF fid /\ parse_vm_affinity(Get(dict, <<"s","c","h","e","d",".","c","p","u",".","a","f","f","i","n","i","t","y">>)) # <<>>
                  THEN <<",","c","p","u","s","e","t","=">> \o parse_vm_affinity(Get(dict, <<"s","c","h","e","d",".","c","p","u",".","a","f","f","i","n","i","t","y">>))
                  ELSE <<>>) >>
    \o << <<"-","-","i","o","t","h","r","e","a","d","s">>, format_d(topo.vcpus) >>
    \o << <<"-","-","w","a","t","c","h","d","o","g">>, <<"i","6","3","0","0","e","s","b",",","a","c","t","i","o","n","=","n","o","n","e">> >>

\* virt_install: firmware and boot, multimedia and events
machine_args(v, dict, gid, sinfo, snd) ==
    (IF main_uefi(dict, v) # <<>> THEN << <<"-","-","b","o","o","t">>, main_uefi(dict, v) >> ELSE <<>>)
    \o (IF gid # <<>> THEN << <<"-","-","m","e","t","a","d","a","t","a">>, <<"g","e","n","i","d","=">> \o gid >> ELSE <<>>)
    \o (IF sinfo # <<>> THEN << <<"-","-","s","y","s","i","n","f","o">>, sinfo >> ELSE <<>>)
    \o << <<"-","-","g","r","a","p","h","i","c","s">>, <<"v","n","c">>, <<"-","-","v","i","d","e","o">>,
          IF parse_boolean(Get(dict, <<"s","v","g","a",".","v","g","a","o","n","l","y">>)) THEN <<"m","o","d","e","l",".","t","y","p","e","=","v","g","a">>
          ELSE IF parse_boolean(Get(dict, <<"s","v","g","a",".","p","r","e","s","e","n","t">>)) THEN <<"m","o","d","e","l",".","t","y","p","e","=","c","i","r","r","u","s">>
          ELSE <<"m","o","d","e","l",".","t","y","p","e","=","n","o","n","e">> >>
    \o (IF snd # <<>> THEN << <<"-","-","s","o","u","n","d">>, <<"m","o","d","e","l","=">> \o snd >> ELSE <<>>)
    \o << <<"-","-","e","v","e","n","t","s">>, <<"o","n","_","c","r","a","s","h","=","r","e","s","t","a","r","t">> >>

\* virt_install: the controllers of one interface, from index x on
RECURSIVE interface_controller_args(_, _, _)
interface_controller_args(interface, ctrls, x) ==
    IF x >= NumControllers THEN <<>>
    ELSE (IF x \in DOMAIN ctrls
          THEN << <<"-","-","c","o","n","t","r","o","l","l","e","r">>,
                  <<"t","y","p","e","=">> \o Text[interface] \o <<",","i","n","d","e","x","=">> \o format_d(x)
                      \o (IF ctrls[x].model # <<>> THEN <<",","m","o","d","e","l","=">> \o ctrls[x].model ELSE <<>>) >>
          ELSE <<>>)
         \o interface_controller_args(interface, ctrls, x + 1)

\* virt_install: the controllers, added in fidelity mode only, IDE and NVMe
\* left out
RECURSIVE controller_args(_, _, _)
controller_args(fid, ctrls, i) ==
    IF ~fid \/ i > Len(Interfaces) THEN <<>>
    ELSE (IF Interfaces[i] \in {"ide", "nvme"} THEN <<>>
          ELSE interface_controller_args(Interfaces[i], ctrls[Interfaces[i]], 0))
         \o controller_args(fid, ctrls, i + 1)

\* virt_install: every disk keeps the bus of its record
disk_target_bus(fid, disk) == Text[disk.bus]

\* virt_install: the target bus of a disk
disk_target(fid, disk) ==
    IF fid \/ disk.device = "cdrom"
    THEN (IF disk.bus = "nvme" THEN <<"v","i","r","t","i","o">> ELSE Text[disk.bus])
    ELSE <<"v","i","r","t","i","o">>

\* virt_install: the --disk argument of a disk that convert_path left at path
disk_args(v, fid, disk, path) ==
    << <<"-","-","d","i","s","k">>,
       <<"d","e","v","i","c","e","=">> \o Text[disk.device] \o <<",","p","a","t","h","=">> \o path
           \o <<",","t","a","r","g","e","t",".","b","u","s","=">> \o disk_target(fid, disk)
           \o <<",","d","r","i","v","e","r",".","c","a","c","h","e","=">> \o Text[disk.cache]
           \o (IF v >= 30 THEN <<",","t","y","p","e","=">> \o Text[disk.driver] ELSE <<>>) >>

\* virt_install: the floppy drives that resolved to a file
RECURSIVE floppy_args(_, _, _)
floppy_args(v, flps, i) ==
    IF i > Len(flps) THEN <<>>
    ELSE (IF ~all(flps[i]) THEN <<>>
          ELSE << <<"-","-","d","i","s","k">>,
                  <<"d","e","v","i","c","e","=","f","l","o","p","p","y",",","p","a","t","h","=">> \o flps[i][2]
                      \o (IF v >= 30 THEN <<",","t","y","p","e","=","f","i","l","e">> ELSE <<>>) >>)
         \o floppy_args(v, flps, i + 1)

\* virt_install: --disk none; a floppy entry is a list of two elements, which
\* "not" finds true whatever it holds
no_disk_args(dsks, flps) ==
    IF dsks = <<>> /\ Len(flps[1]) = 0 /\ Len(flps[2]) = 0
    THEN << <<"-","-","d","i","s","k">>, <<"n","o","n","e">> >> ELSE <<>>

\* the network interfaces with the MAC address of every adapter that has one
RECURSIVE network_args_any_mac(_, _, _)
network_args_any_mac(fid, es, i) ==
    IF i > Len(es) THEN <<>>
    ELSE << <<"-","-","n","e","t","w","o","r","k">>,
            es[i].type
                \o <<",","m","o","d","e","l","=">>
                \o (IF fid /\ es[i].model # <<>> THEN es[i].model ELSE <<"v","i","r","t","i","o","-","n","e","t">>)
                \o (IF es[i].mac # <<>> THEN <<",","m","a","c","=">> \o es[i].mac ELSE <<>>) >>
         \o network_args_any_mac(fid, es, i + 1)

\* virt_install: the network interfaces
RECURSIVE network_args(_, _, _)
network_args(fid, es, i) ==
    IF i > Len(es) THEN <<>>
    ELSE << <<"-","-","n","e","t","w","o","r","k">>,
            es[i].type
                \o <<",","m","o","d","e","l","=">>
                \o (IF fid /\ es[i].model # <<>> THEN es[i].model ELSE <<"v","i","r","t","i","o","-","n","e","t">>)
                \o (IF es[i].mac # <<>> /\ es[i].addr_type = <<".","a","d","d","r","e","s","s">>
                    THEN <<",","m","a","c","=">> \o es[i].mac ELSE <<>>) >>
         \o network_args(fid, es, i + 1)

\* virt_install: communications, guest agent and miscellaneous devices
extra_args ==
    << <<"-","-","c","o","n","t","r","o","l","l","e","r">>, <<"t","y","p","e","=","v","i","r","t","i","o","-","s","e","r","i","a","l",",","m","o","d","e","l","=","v","i","r","t","i","o">>,
       <<"-","-","c","h","a","n","n","e","l">>, <<"u","n","i","x",",","m","o","d","e","=","b","i","n","d",",","t","a","r","g","e","t","_","t","y","p","e","=","v","i","r","t","i","o",",","n","a","m","e","=","o","r","g",".","q","e","m","u",".","g","u","e","s","t","_","a","g","e","n","t",".","0">>,
       <<"-","-","c","h","a","n","n","e","l">>, <<"q","e","m","u","-","v","d","a","g","e","n","t",",","s","o","u","r","c","e",".","c","l","i","p","b","o","a","r","d",".","c","o","p","y","p","a","s","t","e","=","o","n",",","t","a","r","g","e","t",".","t","y","p","e","=","v","i","r","t","i","o">>,
       <<"-","-","r","n","g">>, <<"/","d","e","v","/","u","r","a","n","d","o","m">>,
       <<"-","-","m","e","m","b","a","l","l","o","o","n">>, <<"n","o","n","e">> >>

\* re.subn(r"\.xml$", "", name, count=1, flags=re.IGNORECASE), for a name
\* without line ends: [n |-> the number of replacements, text |-> the result]
re_subn_xml(name) ==
    IF EndsWith(Lower(name), <<".","x","m","l">>)
    THEN [n |-> 1, text |-> SubSeq(name, 1, Len(name) - 4)]
    ELSE [n |-> 0, text |-> name]

(***************************************************************************)
(* get_options: the datastore table                                        *)
(***************************************************************************)
\* datastores[ref] = (sourcepath, targetpath): an existing key keeps its place
DsPut(ds, e) ==
    IF \E i \in 1..Len(ds) : ds[i].ref = e.ref
    THEN [i \in 1..Len(ds) |-> IF ds[i].ref = e.ref THEN e ELSE ds[i]]
    ELSE Append(ds, e)

\* one -d RIDS,IDS=ODS argument
datastore_arg(ds, arg) ==
    LET byEq == Partition(arg, "=")
        byCm == Partition(byEq[1], ",")
        rids       == byCm[1]
        sourcepath == IF byCm[2] THEN byCm[3] ELSE rids
        targetpath == IF byEq[2] THEN byEq[3] ELSE sourcepath
    IN  DsPut(ds, [ref |-> rids, src |-> sourcepath, tgt |-> targetpath])

RECURSIVE datastore_args(_, _)
datastore_args(ds, args) ==
    IF args = <<>> THEN ds ELSE datastore_args(datastore_arg(ds, Head(args)), Tail(args))

\* the table get_options builds from the two file names and the -d arguments
get_datastores(vmx_name, xml_name, args) ==
    LET vmxdir == dirname(abspath(vmx_name))
        xmldir == dirname(abspath(xml_name))
    IN  datastore_args(<<[ref |-> <<".">>, src |-> vmxdir, tgt |-> xmldir],
                         [ref |-> <<".", ".">>, src |-> dirname(vmxdir), tgt |-> dirname(xmldir)]>>,
                       args)

(***************************************************************************)
(* Inputs                                                                  *)
(***************************************************************************)
\* all character sequences over alphabet of length at most n
Strings(alphabet, n) == UNION {[1..k -> alphabet] : k \in 0..n}

\* all sequences over S of length at most n
SeqsUpTo(S, n) == UNION {[1..k -> S] : k \in 0..n}

MaxLineLen == 2

MaxLines == 2

MaxUserDs == 2

MaxFiles == 3

LineAlphabet == {"=", "A", "\""}

CuratedLines ==
    { <<"#"," ","c","=","1">>,
      <<" "," ","!","x","=","2">>,
      <<>>,
      <<" ","\t">>,
      <<"n","o","e","q">>,
      <<"A"," ","="," ","\"","x","\"">>,
      <<" ","a","="," ","y"," ">>,
      <<"a"," ","="," ","\"","\"","b","\"","\"">>,
      <<"B"," ","="," ","c","\"">>,
      <<"b"," ","="," ","\"","d">>,
      <<"k"," ","="," ","\"","e","\"","f","\"">>,
      <<"K","=","=","g">>,
      <<"="," ","h">>,
      <<"a"," ","b"," ","="," ","\""," ","i"," ","\"">>,
      <<"q"," ","="," ","\"">> }

VmxLines == CuratedLines \cup Strings(LineAlphabet, MaxLineLen)

VmxFiles == SeqsUpTo(VmxLines, MaxLines)

vmx_name == <<"/","h","/","v","m","/","x",".","v","m","x">>

xml_name == <<"/","o","/","v","m","/","x",".","x","m","l">>

\* the descriptor itself is a file of the host
VmxFile == <<<<"h">>, <<"v","m">>, <<"x",".","v","m","x">>>>

F_dot == <<<<"h">>, <<"v","m">>, <<"a",".","v","m","d","k">>>>

\* a file already at the place of the disk in the output directory
F_out == <<<<"o">>, <<"v","m">>, <<"a",".","v","m","d","k">>>>

F_dotdot == <<<<"h">>, <<"a",".","v","m","d","k">>>>

F_user == <<<<"i">>, <<"d">>, <<"a",".","v","m","d","k">>>>

F_user_s == <<<<"i">>, <<"d">>, <<"s">>, <<"a",".","v","m","d","k">>>>

F_user_t == <<<<"i">>, <<"d">>, <<"t">>, <<"a",".","v","m","d","k">>>>

F_user2 == <<<<"i">>, <<"d","2">>, <<"a",".","v","m","d","k">>>>

F_upper == <<<<"h">>, <<"v","m">>, <<"B",".","V","M","D","K">>>>

F_iso == <<<<"h">>, <<"c",".","i","s","o">>>>

CandidateFiles == {F_dot, F_dotdot, F_user, F_user_s, F_user_t, F_user2, F_upper, F_iso}

FileSystems == {S \cup {VmxFile} : S \in {T \in SUBSET CandidateFiles : Cardinality(T) <= MaxFiles}}

\* listing orders: the two subdirectories that can both hold the file searched
\* for come in either order
ScanOrders == { <<<<"s">>, <<"t">>, <<"d">>, <<"d","2">>, <<"v","m">>, <<"h">>, <<"i">>, <<"o">>, <<"w">>>>,
                <<<<"t">>, <<"s">>, <<"d">>, <<"d","2">>, <<"v","m">>, <<"h">>, <<"i">>, <<"o">>, <<"w">>>> }

Refs ==
    { <<>>,
      <<"a",".","v","m","d","k">>,
      <<"B",".","V","M","D","K">>,
      <<"c",".","i","s","o">>,
      <<"/","v","m","f","s","/","d","e","v","i","c","e","s","/","x">>,
      <<"/","r","/","d","/","a",".","v","m","d","k">>,
      <<"/","r","/","d","/","s","/","a",".","v","m","d","k">>,
      <<"/","r","/","d","2","/","a",".","v","m","d","k">>,
      <<"s","/","a",".","v","m","d","k">>,
      <<"/","q","/","a",".","v","m","d","k">>,
      <<"/","i","/","d","/","u","/","a",".","v","m","d","k">> }

DatastoreArgs ==
    { <<"/","r","/","d",",","/","i","/","d","=","/","t","/","d">>,
      <<"/","r",",","/","i","=","/","t">>,
      <<"s",",","/","i","/","d","/","s","=","/","t","/","s">>,
      <<"/","i","/","d","=","/","t","/","e">>,
      <<"/","r","/","d","/","s",",","/","q","=","/","t","/","q">> }

DatastoreTables == {get_datastores(vmx_name, xml_name, a) : a \in SeqsUpTo(DatastoreArgs, MaxUserDs)}

DiskModes == {"none", "translate", "convert"}

(***************************************************************************)
(* Inputs of a whole run                                                   *)
(***************************************************************************)
\* the descriptor line  key = "value"
KV(key, value) == key \o <<" ", "=", " ", "\"">> \o value \o <<"\"">>

\* groups of descriptor lines a descriptor is put together from
Blocks ==
    << << KV(<<"s","c","s","i","0",".","p","r","e","s","e","n","t">>, <<"T","R","U","E">>), KV(<<"s","c","s","i","0",".","v","i","r","t","u","a","l","D","e","v">>, <<"p","v","s","c","s","i">>) >>,
       << KV(<<"s","c","s","i","0",":","0",".","p","r","e","s","e","n","t">>, <<"T","R","U","E">>), KV(<<"s","c","s","i","0",":","0",".","f","i","l","e","N","a","m","e">>, <<"a",".","v","m","d","k">>) >>,
       << KV(<<"S","C","S","I","0",":","1",".","P","R","E","S","E","N","T">>, <<"t","r","u","e">>) >>,
       << KV(<<"s","c","s","i","0",":","2",".","p","r","e","s","e","n","t">>, <<"F","A","L","S","E">>), KV(<<"s","c","s","i","0",":","2",".","f","i","l","e","N","a","m","e">>, <<"a",".","v","m","d","k">>),
          KV(<<"s","c","s","i","0",":","3","0",".","p","r","e","s","e","n","t">>, <<"T","R","U","E">>), KV(<<"s","c","s","i","4",":","0",".","p","r","e","s","e","n","t">>, <<"T","R","U","E">>) >>,
       << KV(<<"s","a","t","a","1",".","p","r","e","s","e","n","t">>, <<"T","R","U","E">>) >>,
       << KV(<<"s","a","t","a","1",":","2","9",".","p","r","e","s","e","n","t">>, <<"T","R","U","E">>), KV(<<"s","a","t","a","1",":","2","9",".","f","i","l","e","N","a","m","e">>, <<"/","r","/","d","/","a",".","v","m","d","k">>),
          KV(<<"s","a","t","a","1",":","2","9",".","w","r","i","t","e","T","h","r","o","u","g","h">>, <<"T","R","U","E">>) >>,
       << KV(<<"n","v","m","e","0",".","p","r","e","s","e","n","t">>, <<"T","R","U","E">>), KV(<<"n","v","m","e","0",":","0",".","p","r","e","s","e","n","t">>, <<"T","R","U","E">>),
          KV(<<"n","v","m","e","0",":","0",".","f","i","l","e","N","a","m","e">>, <<"/","v","m","f","s","/","d","e","v","i","c","e","s","/","x">>) >>,
       << KV(<<"i","d","e","1",":","0",".","p","r","e","s","e","n","t">>, <<"T","R","U","E">>), KV(<<"i","d","e","1",":","0",".","d","e","v","i","c","e","T","y","p","e">>, <<"c","d","r","o","m","-","i","m","a","g","e">>),
          KV(<<"i","d","e","1",":","0",".","f","i","l","e","N","a","m","e">>, <<"c",".","i","s","o">>) >>,
       << KV(<<"i","d","e","0",".","p","r","e","s","e","n","t">>, <<"T","R","U","E">>), KV(<<"f","l","o","p","p","y","0",".","f","i","l","e","N","a","m","e">>, <<"c",".","i","s","o">>) >>,
       << KV(<<"S","M","B","I","O","S",".","r","e","f","l","e","c","t","H","o","s","t">>, <<"T","R","U","E">>) >>,
       << KV(<<"e","t","h","e","r","n","e","t","0",".","p","r","e","s","e","n","t">>, <<"T","R","U","E">>), KV(<<"e","t","h","e","r","n","e","t","0",".","c","o","n","n","e","c","t","i","o","n","T","y","p","e">>, <<"n","a","t">>),
          KV(<<"e","t","h","e","r","n","e","t","0",".","n","e","t","w","o","r","k","N","a","m","e">>, <<"n","2">>) >> >>

MaxBlocks == 3

RECURSIVE ConcatBlocks(_, _)
\* the lines of the chosen blocks, in the order of Blocks
ConcatBlocks(chosen, i) ==
    IF i > Len(Blocks) THEN <<>>
    ELSE (IF i \in chosen THEN Blocks[i] ELSE <<>>) \o ConcatBlocks(chosen, i + 1)

Descriptors ==
    {ConcatBlocks(S, 1) : S \in {T \in SUBSET (1..Len(Blocks)) : Cardinality(T) <= MaxBlocks}}

MainFileSystems == { {VmxFile}, {VmxFile, F_dot}, {VmxFile, F_dot, F_user, F_iso} }

MainDatastores == get_datastores(vmx_name, xml_name, << <<"/","r","/","d",",","/","i","/","d","=","/","t","/","d">> >>)

\* the option combinations of the runs explored
OptionProfiles ==
    { [mode |-> "none",      raw |-> FALSE, skip |-> FALSE, os |-> {}],
      [mode |-> "none",      raw |-> TRUE,  skip |-> TRUE,  os |-> {}],
      [mode |-> "translate", raw |-> FALSE, skip |-> FALSE, os |-> {}],
      [mode |-> "translate", raw |-> TRUE,  skip |-> FALSE, os |-> {}],
      [mode |-> "convert",   raw |-> FALSE, skip |-> FALSE, os |-> {}],
      [mode |-> "convert",   raw |-> FALSE, skip |-> FALSE, os |-> {F_dot}],
      [mode |-> "convert",   raw |-> FALSE, skip |-> TRUE,  os |-> {F_dot}] }

MainNetworks == { NoNetworks, get_networks(<< <<"n","1","=","b","r","i","d","g","e","=","b","r","1">> >>).nets }

Isolated == <<"i","s","o","l","a","t","e","d">>

(***************************************************************************)
(* Inputs of find_eths                                                     *)
(***************************************************************************)
MaxNetArgs == 2

NetworkArgs ==
    { <<"n","1","=","b","r","i","d","g","e","=","b","r","1">>,
      <<"n","2","=">>,
      <<"n","a","m","e",":","*","=","n","e","t","w","o","r","k","=","a","n","y">>,
      <<"t","y","p","e",":","n","a","t","=","n","e","t","w","o","r","k","=","m","y","n","a","t">>,
      <<"t","y","p","e",":","b","r","i","d","g","e","d","=">>,
      <<"t","y","p","e",":","*","=","b","r","i","d","g","e","=","b","r","9">> }

EthNetworks == {get_networks(a).nets : a \in SeqsUpTo(NetworkArgs, MaxNetArgs)}

EthTypeLines ==
    { <<>> } \cup
    { << KV(<<"e","t","h","e","r","n","e","t","0",".","c","o","n","n","e","c","t","i","o","n","T","y","p","e">>, t) >> :
        t \in { <<"n","a","t">>, <<"b","r","i","d","g","e","d">>, <<"h","o","s","t","o","n","l","y">>, <<"v","m","n","e","t","8">>, <<"c","u","s","t","o","m">>, <<"N","A","T">> } }

EthNameLines ==
    { <<>> } \cup { << KV(<<"e","t","h","e","r","n","e","t","0",".","n","e","t","w","o","r","k","N","a","m","e">>, n) >> : n \in { <<"n","1">>, <<"n","2">>, <<"n","3">> } }

EthOtherAdapters ==
    { <<>>,
      << KV(<<"e","t","h","e","r","n","e","t","1",".","p","r","e","s","e","n","t">>, <<"F","A","L","S","E">>), KV(<<"e","t","h","e","r","n","e","t","1",".","c","o","n","n","e","c","t","i","o","n","T","y","p","e">>, <<"n","a","t">>),
         KV(<<"E","t","h","e","r","n","e","t","9",".","P","r","e","s","e","n","t">>, <<"T","r","u","e">>), KV(<<"e","t","h","e","r","n","e","t","9",".","c","o","n","n","e","c","t","i","o","n","T","y","p","e">>, <<"v","m","n","e","t","1">>),
         KV(<<"e","t","h","e","r","n","e","t","1","0",".","p","r","e","s","e","n","t">>, <<"T","R","U","E">>) >> }

EthDescriptors ==
    { << KV(<<"e","t","h","e","r","n","e","t","0",".","p","r","e","s","e","n","t">>, <<"T","R","U","E">>) >> \o t \o n \o o :
        t \in EthTypeLines, n \in EthNameLines, o \in EthOtherAdapters }

(***************************************************************************)
(* The steps of a run                                                      *)
(***************************************************************************)
\* the versions the tools report when all of them are installed
AllTools ==
    [c \in {"virt-install", "virt-inspector", "adjust_guestfs.py", "qemu-img", "trace-cmd"} |-> 40]

\* the command line that names the two files and nothing else
NoArgv ==
    [verbose |-> 0, quiet |-> 0, help |-> FALSE,
     input_vmx |-> vmx_name, output_xml |-> xml_name, overwrite |-> FALSE,
     fidelity |-> FALSE, datastore |-> <<>>, network |-> <<>>, sandbox |-> Isolated,
     translate_disks |-> FALSE, convert_disks |-> FALSE, raw |-> FALSE, skip_extra |-> FALSE,
     experimental |-> FALSE, experimental2 |-> FALSE,
     x_adjust |-> FALSE, skip_adjust |-> FALSE,
     adjust_drivers |-> FALSE, adjust_trim |-> FALSE, adjust_fstab |-> FALSE,
     trace_cmd |-> FALSE]

\* the state of the output file as the run finds it
FoundXml(name, files) == IF PathList(name) \in files THEN "old" ELSE "none"

\* a run that get_options and the version checks have let through
\* testboot_xml: the command line with only the file named
NoBootArgs ==
    [filename |-> xml_name, overwrite |-> FALSE, skip_adjust |-> FALSE, x_adjust |-> FALSE,
     layer2 |-> FALSE, timeout |-> 0, keep |-> FALSE, verbose |-> 0, quiet |-> 0]

DefaultOptions ==
    /\ argv = NoArgv
    /\ fidelity = FALSE
    /\ trace_cmd = FALSE
    /\ output_xml = xml_name
    /\ tools = AllTools
    /\ conv_mode = "v2v"
    /\ adj_mode = "v2v"
    /\ xml_file = FoundXml(xml_name, fs)

NoRecords ==
    /\ sysinfo = <<>>
    /\ nvram = NoPaths
    /\ disk_ctrls = [i \in {"scsi", "sata", "nvme", "ide"} |-> <<>>]
    /\ disks = <<>>
    /\ floppys = <<NoPaths, NoPaths>>
    /\ eths = <<>>
    /\ bus = 1
    /\ di = 1
    /\ cp_calls = <<>>
    /\ memory = 0
    /\ genid = <<>>
    /\ topology = NoTopology
    /\ sound = <<>>
    /\ cmd_args = <<>>
    /\ made_dirs = {}
    /\ runs = <<>>
    /\ written = <<>>
    /\ created_dirs = {}
    /\ boot_in = NoBootArgs
    /\ domain = "absent"
    /\ clock = 0
    /\ result = FALSE

\* get_options up to what it returns and does to the host:
\* [status |-> "running" when it returns, else how it ends the process,
\*  made |-> the directories it calls os.makedirs for, and the values returned]
get_options(a) ==
    LET quit(st, dirs) ==
            [status |-> st, made |-> dirs, xml_name |-> output_xml, fidelity |-> fidelity,
             disk_mode |-> disk_mode, raw |-> raw, skip_extra |-> skip_extra,
             datastores |-> datastores, networks |-> networks, sandbox |-> sandbox,
             trace_cmd |-> trace_cmd, conv_mode |-> conv_mode, adj_mode |-> adj_mode]
        xmldir == {PathList(dirname(abspath(a.output_xml)))}
    IN  IF a.verbose > 0 /\ a.quiet > 0 THEN quit("exit1", {})
        ELSE IF a.help THEN quit("exit0", {})
        ELSE IF a.input_vmx = <<>> \/ a.output_xml = <<>> THEN quit("exit1", {})
        ELSE IF a.experimental /\ a.experimental2 THEN quit("exit1", {})
        ELSE IF a.skip_adjust /\ a.x_adjust THEN quit("exit1", {})
        ELSE IF a.adjust_fstab /\ ~a.x_adjust THEN quit("exit1", {})
        ELSE IF get_networks(a.network).exit THEN quit("exit1", xmldir)
        ELSE IF exists(a.output_xml) /\ ~a.overwrite THEN quit("exit0", xmldir)
        ELSE IF ~EndsWith(a.output_xml, <<".","x","m","l">>) THEN quit("exit1", xmldir)
        ELSE [status |-> "running", made |-> xmldir,
              xml_name |-> a.output_xml, fidelity |-> a.fidelity,
              disk_mode |-> IF a.convert_disks THEN "convert"
                            ELSE IF a.translate_disks THEN "translate" ELSE "none",
              raw |-> a.raw, skip_extra |-> a.skip_extra,
              datastores |-> get_datastores(a.input_vmx, a.output_xml, a.datastore),
              networks |-> get_networks(a.network).nets, sandbox |-> a.sandbox,
              trace_cmd |-> a.trace_cmd,
              conv_mode |-> IF a.experimental THEN "x"
                            ELSE IF a.experimental2 THEN "y" ELSE "v2v",
              adj_mode |-> IF a.skip_adjust
                              \/ (a.x_adjust /\ ~(a.adjust_drivers \/ a.adjust_trim \/ a.adjust_fstab))
                           THEN "none"
                           ELSE IF a.x_adjust THEN "x" ELSE "v2v"]

\* main: get_options
GetOptions ==
    /\ pc = "get_options"
    /\ status = "running"
    /\ \E o \in {get_options(argv)} :
          /\ status' = o.status
          /\ pc' = IF o.status = "running" THEN "detect_versions" ELSE pc
          /\ made_dirs' = made_dirs \cup o.made
          /\ created_dirs' = created_dirs \cup missing_dirs(o.made)
          /\ output_xml' = o.xml_name
          /\ fidelity' = o.fidelity
          /\ disk_mode' = o.disk_mode
          /\ raw' = o.raw
          /\ skip_extra' = o.skip_extra
          /\ datastores' = o.datastores
          /\ networks' = o.networks
          /\ sandbox' = o.sandbox
          /\ trace_cmd' = o.trace_cmd
          /\ conv_mode' = o.conv_mode
          /\ adj_mode' = o.adj_mode
    /\ UNCHANGED <<runs, written, boot, xml_file, d, fs, paths, di, cp_calls, cmd_args, records, machine,
                   vmx, scan, osfiles, ref, argv, tools>>

\* main: the versions of the tools are detected; a tool that is not found or
\* reports no version, a virt-install before 2.2 and a trace-cmd before 2.7
\* end the process
detect_versions(t, trace) ==
    IF t["virt-install"] = 0 \/ t["virt-install"] < 22 THEN "exit1"
    ELSE IF t["virt-inspector"] = 0 THEN "exit1"
    ELSE IF t["adjust_guestfs.py"] = 0 THEN "exit1"
    ELSE IF t["qemu-img"] = 0 THEN "exit1"
    ELSE IF t["trace-cmd"] = 0 \/ t["trace-cmd"] < 27 THEN "exit1"
    ELSE IF trace /\ t["trace-cmd"] < 27 THEN "exit1"
    ELSE "running"

DetectVersions ==
    /\ pc = "detect_versions"
    /\ status = "running"
    /\ status' = detect_versions(tools, trace_cmd)
    /\ pc' = IF detect_versions(tools, trace_cmd) = "running" THEN "parse_vmx" ELSE pc
    /\ UNCHANGED <<effects, xml_file, made_dirs, d, fs, paths, di, cp_calls, inputs, machine, cmd_args, records>>

\* main: the descriptor is opened and read into the store
ParseVmx ==
    /\ pc = "parse_vmx"
    /\ status = "running"
    /\ IF PathList(argv.input_vmx) \in fs
       THEN d' = parse_vmx(vmx, d) /\ pc' = "decode" /\ status' = status
       ELSE d' = d /\ pc' = pc /\ status' = "FileNotFoundError"
    /\ UNCHANGED <<effects, xml_file, made_dirs, fs, paths, di, cp_calls, inputs, machine, cmd_args, records>>

\* main: the scalar fields before the topology are decoded; an exception ends
\* the run where it is raised
Decode ==
    /\ pc = "decode"
    /\ status = "running"
    /\ \E g \in {main_genid(d)} :
          /\ memory' = IF g.error # "" THEN memory ELSE g.memory
          /\ genid' = g.genid
          /\ sysinfo' = IF g.error # "" THEN sysinfo ELSE main_sysinfo(d)
          /\ status' = IF g.error # "" THEN g.error ELSE status
          /\ pc' = IF g.error # "" THEN pc ELSE "topology"
    /\ UNCHANGED <<effects, xml_file, made_dirs, d, fs, paths, di, cp_calls, inputs, cmd_args, topology, sound,
                   nvram, disk_ctrls, disks, floppys, eths, bus>>

\* main: the topology is derived; an exception ends the run where it is raised
Topology ==
    /\ pc = "topology"
    /\ status = "running"
    /\ \E t \in {main_topology(d)} :
          /\ topology' = t.topology
          /\ status' = IF t.error # "" THEN t.error ELSE status
          /\ pc' = IF t.error # "" THEN pc ELSE "nvram"
    /\ UNCHANGED <<effects, xml_file, made_dirs, d, fs, paths, di, cp_calls, inputs, cmd_args, records, memory, genid, sound>>

\* main: the nvram reference is resolved, the video memory is read and the
\* sound model is found; the run ends where a file is missing or an exception
\* is raised
Nvram ==
    /\ pc = "nvram"
    /\ status = "running"
    /\ \E nv \in {parse_filename_ref(Get(d, <<"n","v","r","a","m">>), datastores, disk_mode # "none", raw)} :
        \E ok \in {int_or(Get(d, <<"s","v","g","a",".","v","r","a","m","s","i","z","e">>), 0).ok} :
          /\ nvram' = nv.paths
          /\ sound' = IF nv.exit \/ ~ok THEN sound ELSE find_sound(d)
          /\ status' = IF nv.exit THEN "exit1" ELSE IF ~ok THEN "ValueError" ELSE status
          /\ pc' = IF nv.exit \/ ~ok THEN pc ELSE "find_disks"
    /\ UNCHANGED <<effects, xml_file, made_dirs, d, fs, paths, di, cp_calls, inputs, cmd_args, memory, genid, topology,
                   sysinfo, disk_ctrls, disks, floppys, eths, bus>>

\* a main that calls convert_path for the disks of an interface as soon as
\* find_disks has returned them
FindDisks_converting ==
    /\ pc = "find_disks"
    /\ status = "running"
    /\ \E r \in {find_disks(d, datastores, Interfaces[bus],
                            find_disk_controllers(d, Interfaces[bus]), disk_mode, raw)} :
           /\ disk_ctrls' = [disk_ctrls EXCEPT ![Interfaces[bus]] = r.controllers]
           /\ disks' = disks \o r.disks
           /\ status' = IF r.exit THEN "exit1" ELSE status
           /\ pc' = IF r.exit THEN pc
                    ELSE IF bus = Len(Interfaces) THEN "floppys" ELSE "find_disks"
           /\ bus' = IF r.exit THEN bus ELSE bus + 1
           /\ runs' = runs \o inspector_runs(r.disks, r.probed)
           /\ cp_calls' = cp_calls \o [i \in 1..Len(r.disks) |-> r.disks[i].path]
    /\ UNCHANGED <<written, created_dirs, boot, xml_file, made_dirs, d, fs, paths, di, inputs, machine, cmd_args, sysinfo, nvram, floppys, eths>>

\* main: one round of the loop over the interfaces, find_disk_controllers and
\* find_disks
FindDisks ==
    /\ pc = "find_disks"
    /\ status = "running"
    /\ \E r \in {find_disks(d, datastores, Interfaces[bus],
                            find_disk_controllers(d, Interfaces[bus]), disk_mode, raw)} :
           /\ disk_ctrls' = [disk_ctrls EXCEPT ![Interfaces[bus]] = r.controllers]
           /\ disks' = disks \o r.disks
           /\ status' = IF r.exit THEN "exit1" ELSE status
           /\ pc' = IF r.exit THEN pc
                    ELSE IF bus = Len(Interfaces) THEN "floppys" ELSE "find_disks"
           /\ bus' = IF r.exit THEN bus ELSE bus + 1
           /\ runs' = runs \o inspector_runs(r.disks, r.probed)
    /\ UNCHANGED <<written, created_dirs, boot, xml_file, made_dirs, d, fs, paths, di, cp_calls, inputs, machine, cmd_args, sysinfo, nvram, floppys, eths>>

\* main: the two floppy references are resolved
Floppys ==
    /\ pc = "floppys"
    /\ status = "running"
    /\ \E f \in {[y \in 0..(NumFloppys - 1) |->
                     parse_filename_ref(Get(d, <<"f","l","o","p","p","y">> \o Str(y) \o <<".","f","i","l","e","n","a","m","e">>),
                                        datastores, disk_mode # "none", raw)]} :
           /\ floppys' = <<f[0].paths, IF f[0].exit THEN NoPaths ELSE f[1].paths>>
           /\ status' = IF f[0].exit \/ f[1].exit THEN "exit1" ELSE status
           /\ pc' = IF f[0].exit \/ f[1].exit THEN pc ELSE "find_eths"
    /\ UNCHANGED <<effects, xml_file, made_dirs, d, fs, paths, di, cp_calls, inputs, machine, cmd_args, sysinfo, nvram, disk_ctrls, disks, eths, bus>>

\* main: find_eths
FindEths ==
    /\ pc = "find_eths"
    /\ status = "running"
    /\ \E r \in {find_eths(d, <<"e","t","h","e","r","n","e","t">>, networks, sandbox)} :
       /\ eths' = r.eths
       /\ status' = IF r.crash THEN "crash" ELSE status
       /\ pc' = IF r.crash THEN pc ELSE "virt_install"
    /\ UNCHANGED <<effects, xml_file, made_dirs, d, fs, paths, di, cp_calls, inputs, machine, cmd_args, sysinfo, nvram, disk_ctrls, disks, floppys, bus>>

\* main's vinst_version: what detect_vinst_version returned
vinst_version == tools["virt-install"]

\* virt_install up to its loop over the disks: the name of the domain is taken
\* from the name of the output file, which has to end in .xml, and the memory
\* has to be positive
VirtInstallStart ==
    /\ pc = "virt_install"
    /\ status = "running"
    /\ \E dom \in {re_subn_xml(basename(output_xml))} :
       /\ status' = IF dom.n # 1 THEN "exit1"
                    ELSE IF memory <= 0 THEN "AssertionError" ELSE status
       /\ pc' = IF dom.n # 1 \/ memory <= 0 THEN pc ELSE "disk_loop"
       /\ cmd_args' = IF dom.n # 1 \/ memory <= 0 THEN cmd_args
                      ELSE vm_args(vinst_version, dom.text, fidelity, d, memory, topology)
                           \o machine_args(vinst_version, d, genid, sysinfo, sound)
                           \o controller_args(fidelity, disk_ctrls, 1)
    /\ di' = 1
    /\ UNCHANGED <<effects, xml_file, made_dirs, d, fs, paths, cp_calls, inputs, machine, records>>

\* virt_install: one round of the loop over the disks
ConvertDisk ==
    /\ pc = "disk_loop"
    /\ status = "running"
    /\ di <= Len(disks)
    /\ LET disk == disks[di] IN
       IF skip_extra /\ disk.os = <<>>
       THEN /\ di' = di + 1
            /\ UNCHANGED <<pc, status, fs, cp_calls, cmd_args, made_dirs, effects>>
       ELSE \E ok \in ToolOutcomes(disk.path[1], disk.path[2], disk_mode),
               same \in CmpOutcomes(disk.path[1], disk.path[2], disk_mode, fs) :
            \E r \in {convert_path(disk.path[1], disk.path[2], disk_mode, conv_mode, adj_mode,
                                   disk.os, ok, same, fs)} :
            /\ cp_calls' = Append(cp_calls, disk.path)
            /\ fs' = r.files
            /\ runs' = runs \o r.runs
            /\ written' = IF r.wrote = "" THEN written
                          ELSE [f \in DOMAIN written \cup {PathList(disk.path[2])} |->
                                   IF f = PathList(disk.path[2]) THEN r.wrote ELSE written[f]]
            /\ status' = IF r.crash THEN "crash" ELSE IF r.fail # "" THEN r.fail ELSE status
            /\ pc' = pc
            /\ di' = IF r.crash \/ r.fail # "" THEN di ELSE di + 1
            /\ cmd_args' = IF r.crash \/ r.fail # "" THEN cmd_args
                           ELSE cmd_args \o disk_args(vinst_version, fidelity, disk, disk.path[2])
            /\ made_dirs' = IF r.crash THEN made_dirs
                            ELSE made_dirs \cup {PathList(dirname(disk.path[2]))}
            /\ created_dirs' = IF r.crash THEN created_dirs
                               ELSE created_dirs \cup missing_dirs({PathList(dirname(disk.path[2]))})
            /\ UNCHANGED boot
    /\ UNCHANGED <<xml_file, d, paths, inputs, machine, records>>

\* virt_install after the loop: the remaining arguments are added, the output
\* file is opened for writing and the domain-definition tool is run; main
\* returns 0 when the tool succeeds
VirtInstallRun ==
    /\ pc = "disk_loop"
    /\ status = "running"
    /\ di > Len(disks)
    /\ cmd_args' = cmd_args \o floppy_args(vinst_version, floppys, 1)
                            \o no_disk_args(disks, floppys)
                            \o network_args(fidelity, eths, 1)
                            \o extra_args
    /\ fs' = fs \cup {PathList(output_xml)}
    /\ \E ok \in BOOLEAN :
          /\ status' = IF ok THEN "exit0" ELSE "exit1"
          /\ pc' = IF ok THEN "done" ELSE pc
          /\ xml_file' = IF ok THEN "written" ELSE "empty"
    /\ UNCHANGED <<effects, made_dirs, d, paths, di, cp_calls, inputs, machine, records>>

\* a call of parse_filename_ref, as main and find_disks make it
ParseFilenameRef ==
    /\ pc = "parse_filename_ref"
    /\ \E r \in {parse_filename_ref(ref, datastores, disk_mode # "none", raw)} :
       /\ paths' = r.paths
       /\ status' = IF r.exit THEN "exit1" ELSE "running"
       /\ pc' = IF r.exit THEN "exited" ELSE "returned"
    /\ UNCHANGED <<effects, xml_file, made_dirs, d, fs, di, cp_calls, inputs, machine, cmd_args, records>>

(***************************************************************************)
(* Specification of a whole run, from the parsing of the descriptor on     *)
(***************************************************************************)
Init ==
    /\ pc = "parse_vmx"
    /\ status = "running"
    /\ vmx \in Descriptors
    /\ d = EmptyDict
    /\ fs \in MainFileSystems
    /\ scan \in {s \in ScanOrders : s[1] = <<"s">>}
    /\ datastores = MainDatastores
    /\ \E o \in OptionProfiles :
          /\ disk_mode = o.mode
          /\ raw = o.raw
          /\ skip_extra = o.skip
          /\ osfiles = o.os
    /\ networks \in MainNetworks
    /\ sandbox = Isolated
    /\ ref = <<>>
    /\ paths = NoPaths
    /\ DefaultOptions
    /\ NoRecords

Next ==
    \/ ParseVmx
    \/ Decode
    \/ Topology
    \/ Nvram
    \/ FindDisks
    \/ Floppys
    \/ FindEths
    \/ VirtInstallStart
    \/ ConvertDisk
    \/ VirtInstallRun

Spec == Init /\ [][Next]_vars

(***************************************************************************)
(* Specification of parse_vmx alone                                        *)
(***************************************************************************)
InitVmx ==
    /\ pc = "parse_vmx"
    /\ status = "running"
    /\ vmx \in VmxFiles
    /\ d = EmptyDict
    /\ fs = {VmxFile}
    /\ scan \in {s \in ScanOrders : s[1] = <<"s">>}
    /\ datastores = get_datastores(vmx_name, xml_name, <<>>)
    /\ disk_mode = "none"
    /\ raw = FALSE
    /\ skip_extra = FALSE
    /\ osfiles = {}
    /\ networks = NoNetworks
    /\ sandbox = Isolated
    /\ ref = <<>>
    /\ paths = NoPaths
    /\ DefaultOptions
    /\ NoRecords

NextVmx == ParseVmx

SpecVmx == InitVmx /\ [][NextVmx]_vars

(***************************************************************************)
(* Specification of parse_filename_ref alone                               *)
(***************************************************************************)
InitRef ==
    /\ pc = "parse_filename_ref"
    /\ status = "running"
    /\ vmx = <<>>
    /\ d = EmptyDict
    /\ fs \in FileSystems
    /\ scan \in IF {F_user_s, F_user_t} \subseteq fs THEN ScanOrders
                ELSE {s \in ScanOrders : s[1] = <<"s">>}
    /\ datastores \in DatastoreTables
    /\ disk_mode \in {"none", "translate"}
    /\ raw \in BOOLEAN
    /\ skip_extra = FALSE
    /\ osfiles = {}
    /\ networks = NoNetworks
    /\ sandbox = Isolated
    /\ ref \in Refs
    /\ paths = NoPaths
    /\ DefaultOptions
    /\ NoRecords

NextRef == ParseFilenameRef

SpecRef == InitRef /\ [][NextRef]_vars

(***************************************************************************)
(* Specification of find_eths alone                                        *)
(***************************************************************************)
InitEth ==
    /\ pc = "find_eths"
    /\ status = "running"
    /\ vmx \in EthDescriptors
    /\ d = parse_vmx(vmx, EmptyDict)
    /\ fs = {VmxFile}
    /\ scan \in {s \in ScanOrders : s[1] = <<"s">>}
    /\ datastores = get_datastores(vmx_name, xml_name, <<>>)
    /\ disk_mode = "none"
    /\ raw = FALSE
    /\ skip_extra = FALSE
    /\ osfiles = {}
    /\ networks \in EthNetworks
    /\ sandbox = Isolated
    /\ ref = <<>>
    /\ paths = NoPaths
    /\ DefaultOptions
    /\ NoRecords

NextEth == FindEths

SpecEth == InitEth /\ [][NextEth]_vars

(***************************************************************************)
(* Specification of the runs over descriptors of machine settings and no   *)
(* devices                                                                 *)
(***************************************************************************)
\* what a descriptor writes for a count: nothing, zero, a negative number,
\* counts that divide each other or do not, and text that is no number
CountValues == { <<>>, <<"0">>, <<"-","2">>, <<"1">>, <<"2">>, <<"3">>, <<"4">>, <<"6">>, <<"1","2">>, <<"x">> }

CountLine(key, v) == IF v = <<>> THEN <<>> ELSE << KV(key, v) >>

CpuDescriptors ==
    { CountLine(<<"n","u","m","v","c","p","u","s">>, v) \o CountLine(<<"c","p","u","i","d",".","c","o","r","e","s","P","e","r","S","o","c","k","e","t">>, c) :
        v \in CountValues, c \in CountValues }

\* what a descriptor writes for a field of the generation ID: nothing, zero,
\* small and large numbers of either sign, the ends of the signed 64-bit
\* range, the first number past it, and text that is no number
GenidValues ==
    { <<>>, <<"0">>, <<"1">>, <<"-","1">>, <<"2","5","5">>, <<"-","2","5","6">>,
      <<"1","3","1","1","7","6","8","4","6","7","4","6","3","7","9","0","3","2","0">>, <<"-","1","3","1","1","7","6","8","4","6","7","4","6","3","7","9","0","3","2","0">>,
      <<"9","2","2","3","3","7","2","0","3","6","8","5","4","7","7","5","8","0","7">>, <<"-","9","2","2","3","3","7","2","0","3","6","8","5","4","7","7","5","8","0","8">>,
      <<"9","2","2","3","3","7","2","0","3","6","8","5","4","7","7","5","8","0","8">>, <<"x">> }

GenidDescriptors ==
    { CountLine(<<"v","m",".","g","e","n","i","d">>, a) \o CountLine(<<"v","m",".","g","e","n","i","d","X">>, b) : a \in GenidValues, b \in GenidValues }

MemoryDescriptors == { CountLine(<<"m","e","m","S","i","z","e">>, m) : m \in {<<"0">>, <<"2","0","4","8">>, <<"x">>} }

\* the models a descriptor names for its first SCSI controller: none, the
\* five of the table, one the table does not have, and one in capitals
ScsiModels ==
    { <<>>, <<"a","u","t","o">>, <<"l","s","i","l","o","g","i","c">>, <<"l","s","i","s","a","s","1","0","6","8">>, <<"p","v","s","c","s","i">>, <<"b","u","s","l","o","g","i","c">>, <<"l","s","i","s","a","s","1","0","6","4">>, <<"P","V","S","C","S","I">> }

ScsiDescriptors ==
    { << KV(<<"s","c","s","i","0",".","p","r","e","s","e","n","t">>, <<"T","R","U","E">>) >> \o CountLine(<<"s","c","s","i","0",".","v","i","r","t","u","a","l","D","e","v">>, m) : m \in ScsiModels }

\* the sound settings of a descriptor
SoundDescriptors ==
    { CountLine(<<"s","o","u","n","d",".","p","r","e","s","e","n","t">>, p) \o CountLine(<<"s","o","u","n","d",".","a","u","t","o","D","e","t","e","c","t">>, a)
          \o CountLine(<<"s","o","u","n","d",".","v","i","r","t","u","a","l","D","e","v">>, m) :
        p \in {<<>>, <<"T","R","U","E">>, <<"F","A","L","S","E">>}, a \in {<<>>, <<"T","R","U","E">>, <<"F","A","L","S","E">>},
        m \in {<<>>, <<"e","s","1","3","7","1">>, <<"h","d","a","u","d","i","o">>, <<"s","b","1","6">>, <<"a","c","9","7">>} }

VideoDescriptors == { CountLine(<<"s","v","g","a",".","v","r","a","m","S","i","z","e">>, m) : m \in {<<"1","6","3","8","4">>, <<"x">>} }

\* a controller of the interface with one unit of the device type
DiskLines(interface, unit, type) ==
    << KV(interface \o <<"0",".","p","r","e","s","e","n","t">>, <<"T","R","U","E">>),
       KV(interface \o unit \o <<".","p","r","e","s","e","n","t">>, <<"T","R","U","E">>),
       KV(interface \o unit \o <<".","f","i","l","e","N","a","m","e">>, <<"a",".","v","m","d","k">>) >>
    \o CountLine(interface \o unit \o <<".","d","e","v","i","c","e","T","y","p","e">>, type)

DeviceTypes == {<<>>, <<"c","d","r","o","m","-","i","m","a","g","e">>, <<"d","i","s","k">>}

\* units written in an order that is not the one of the enumeration
ShuffledDisks ==
    << KV(<<"i","d","e","0",":","1",".","p","r","e","s","e","n","t">>, <<"T","R","U","E">>), KV(<<"i","d","e","0",":","1",".","f","i","l","e","N","a","m","e">>, <<"a",".","v","m","d","k">>),
       KV(<<"i","d","e","0",":","1",".","d","e","v","i","c","e","T","y","p","e">>, <<"c","d","r","o","m","-","r","a","w">>),
       KV(<<"s","c","s","i","1",".","p","r","e","s","e","n","t">>, <<"T","R","U","E">>), KV(<<"s","c","s","i","1",":","0",".","p","r","e","s","e","n","t">>, <<"T","R","U","E">>),
       KV(<<"s","c","s","i","1",":","0",".","f","i","l","e","N","a","m","e">>, <<"a",".","v","m","d","k">>), KV(<<"s","c","s","i","1",":","0",".","w","r","i","t","e","T","h","r","o","u","g","h">>, <<"T","R","U","E">>),
       KV(<<"s","c","s","i","0",":","2",".","p","r","e","s","e","n","t">>, <<"T","R","U","E">>), KV(<<"s","c","s","i","0",":","2",".","f","i","l","e","N","a","m","e">>, <<"a",".","v","m","d","k">>),
       KV(<<"s","c","s","i","0",":","2",".","d","e","v","i","c","e","T","y","p","e">>, <<"c","d","r","o","m","-","i","m","a","g","e">>),
       KV(<<"s","c","s","i","0",":","1",".","p","r","e","s","e","n","t">>, <<"T","R","U","E">>), KV(<<"s","c","s","i","0",":","1",".","f","i","l","e","N","a","m","e">>, <<"a",".","v","m","d","k">>),
       KV(<<"s","c","s","i","0",".","p","r","e","s","e","n","t">>, <<"T","R","U","E">>) >>

\* an IDE controller key without a unit, and an IDE unit without a key
IdeKeys ==
    << KV(<<"i","d","e","1",".","p","r","e","s","e","n","t">>, <<"T","R","U","E">>),
       KV(<<"i","d","e","0",":","0",".","p","r","e","s","e","n","t">>, <<"T","R","U","E">>), KV(<<"i","d","e","0",":","0",".","f","i","l","e","N","a","m","e">>, <<"a",".","v","m","d","k">>) >>

\* one disk on every interface, two disks on two interfaces, ShuffledDisks
\* and IdeKeys
DiskDescriptors ==
    {ShuffledDisks, IdeKeys} \cup
    { DiskLines(i, <<"0",":","0">>, t) : i \in {<<"s","c","s","i">>, <<"s","a","t","a">>, <<"n","v","m","e">>, <<"i","d","e">>}, t \in DeviceTypes }
    \cup { DiskLines(<<"n","v","m","e">>, <<"0",":","1">>, t) \o DiskLines(<<"s","a","t","a">>, <<"0",":","0">>, u) :
              t \in DeviceTypes, u \in DeviceTypes }

\* the lines of adapter x with an address type and the two address fields
AddressLines(x, type, address, generated) ==
    << KV(<<"e","t","h","e","r","n","e","t">> \o x \o <<".","p","r","e","s","e","n","t">>, <<"T","R","U","E">>) >>
        \o (IF type = None THEN <<>> ELSE << KV(<<"e","t","h","e","r","n","e","t">> \o x \o <<".","a","d","d","r","e","s","s","T","y","p","e">>, type) >>)
        \o (IF address = <<>> THEN <<>> ELSE << KV(<<"e","t","h","e","r","n","e","t">> \o x \o <<".","a","d","d","r","e","s","s">>, address) >>)
        \o (IF generated = <<>> THEN <<>> ELSE << KV(<<"e","t","h","e","r","n","e","t">> \o x \o <<".","g","e","n","e","r","a","t","e","d","A","d","d","r","e","s","s">>, generated) >>)

AddressTypes == {None, <<>>, <<"s","t","a","t","i","c">>, <<"g","e","n","e","r","a","t","e","d">>, <<"v","p","x">>, <<"S","t","a","t","i","c">>, <<"m","a","n","u","a","l">>}

\* descriptors with one adapter, and one with a static and a generated adapter
AddressDescriptors ==
    { AddressLines(<<"0">>, t, a, g) : t \in AddressTypes, a \in {<<>>, <<"0","0",":","5","0">>}, g \in {<<>>, <<"0","0",":","0","c">>} }
        \cup { AddressLines(<<"0">>, <<"s","t","a","t","i","c">>, <<"0","0",":","5","0">>, <<>>) \o AddressLines(<<"1">>, <<"g","e","n","e","r","a","t","e","d">>, <<>>, <<"0","0",":","0","c">>) }

MachineDescriptors ==
    CpuDescriptors \cup GenidDescriptors \cup MemoryDescriptors \cup ScsiDescriptors
        \cup SoundDescriptors \cup VideoDescriptors \cup DiskDescriptors \cup AddressDescriptors

\* the versions of virt-install that change the argument list, in tenths
VinstVersions == {22, 30, 40}

InitMachine ==
    /\ pc = "parse_vmx"
    /\ status = "running"
    /\ vmx \in MachineDescriptors
    /\ d = EmptyDict
    /\ fs \in {{VmxFile}, {VmxFile, F_dot}, {VmxFile, F_dot, F_out}}
    /\ scan \in {s \in ScanOrders : s[1] = <<"s">>}
    /\ datastores = get_datastores(vmx_name, xml_name, <<>>)
    /\ disk_mode \in {"none", "convert"}
    /\ raw = FALSE
    /\ skip_extra = FALSE
    /\ osfiles \in {{}, {F_dot}}
    /\ networks = NoNetworks
    /\ sandbox = Isolated
    /\ ref = <<>>
    /\ paths = NoPaths
    /\ argv = NoArgv
    /\ fidelity \in BOOLEAN
    /\ trace_cmd = FALSE
    /\ output_xml = xml_name
    /\ tools \in {[AllTools EXCEPT !["virt-install"] = v] : v \in VinstVersions}
    /\ conv_mode \in {"v2v", "x", "y"}
    /\ adj_mode \in {"v2v", "none", "x"}
    /\ xml_file = FoundXml(xml_name, fs)
    /\ vmx \notin DiskDescriptors => (fs = {VmxFile} /\ ~fidelity /\ tools = AllTools)
    /\ (osfiles # {} \/ conv_mode # "v2v" \/ adj_mode # "v2v") =>
          /\ vmx \in DiskDescriptors
          /\ disk_mode = "convert"
          /\ fs = {VmxFile, F_dot}
          /\ ~fidelity
          /\ tools = AllTools
    /\ NoRecords

NextMachine ==
    \/ ParseVmx
    \/ Decode
    \/ Topology
    \/ Nvram
    \/ FindDisks
    \/ Floppys
    \/ FindEths
    \/ VirtInstallStart
    \/ ConvertDisk
    \/ VirtInstallRun

SpecMachine == InitMachine /\ [][NextMachine]_vars

(***************************************************************************)
(* Specification of a whole run, from the command line on                  *)
(***************************************************************************)
XmlFile == <<<<"o">>, <<"v","m">>, <<"x",".","x","m","l">>>>

\* command lines: sound ones, and one for every way get_options refuses one
RunArgvs ==
    { NoArgv,
      [NoArgv EXCEPT !.overwrite = TRUE],
      [NoArgv EXCEPT !.convert_disks = TRUE],
      [NoArgv EXCEPT !.convert_disks = TRUE, !.overwrite = TRUE, !.fidelity = TRUE],
      [NoArgv EXCEPT !.translate_disks = TRUE, !.raw = TRUE],
      [NoArgv EXCEPT !.verbose = 2],
      [NoArgv EXCEPT !.verbose = 1, !.quiet = 1],
      [NoArgv EXCEPT !.help = TRUE],
      [NoArgv EXCEPT !.input_vmx = <<>>],
      [NoArgv EXCEPT !.output_xml = <<>>],
      [NoArgv EXCEPT !.input_vmx = <<"/","h","/","v","m","/","y",".","v","m","x">>],
      [NoArgv EXCEPT !.experimental = TRUE],
      [NoArgv EXCEPT !.experimental = TRUE, !.experimental2 = TRUE],
      [NoArgv EXCEPT !.skip_adjust = TRUE, !.x_adjust = TRUE],
      [NoArgv EXCEPT !.adjust_fstab = TRUE],
      [NoArgv EXCEPT !.x_adjust = TRUE, !.adjust_fstab = TRUE],
      [NoArgv EXCEPT !.output_xml = <<"/","o","/","v","m","/","x",".","X","M","L">>],
      [NoArgv EXCEPT !.output_xml = <<"/","o","/","v","m","/","x">>, !.overwrite = TRUE],
      [NoArgv EXCEPT !.network = << <<"h","o","s","t",":","a","=","b">> >>],
      [NoArgv EXCEPT !.network = << <<"t","y","p","e",":","n","a","t","=","d","e","f","a","u","l","t">> >>, !.datastore = << <<"/","r","/","d",",","/","i","/","d","=","/","t","/","d">> >>],
      [NoArgv EXCEPT !.trace_cmd = TRUE],
      [NoArgv EXCEPT !.output_xml = <<"/","n","/","x",".","x","m","l">>] }

\* what the tools of the host report
RunTools ==
    { AllTools,
      [AllTools EXCEPT !["virt-install"] = 0],
      [AllTools EXCEPT !["virt-install"] = 20],
      [AllTools EXCEPT !["virt-install"] = 30],
      [AllTools EXCEPT !["virt-inspector"] = 0],
      [AllTools EXCEPT !["adjust_guestfs.py"] = 0],
      [AllTools EXCEPT !["qemu-img"] = 0],
      [AllTools EXCEPT !["trace-cmd"] = 0],
      [AllTools EXCEPT !["trace-cmd"] = 25] }

\* descriptors whose references resolve, and descriptors with a disk, an
\* nvram or a floppy image that is not on the host
RunDescriptors ==
    { <<>>,
      DiskLines(<<"s","c","s","i">>, <<"0",":","0">>, <<>>),
      DiskLines(<<"s","c","s","i">>, <<"0",":","0">>, <<>>) \o << KV(<<"s","a","t","a","0",".","p","r","e","s","e","n","t">>, <<"T","R","U","E">>),
                                              KV(<<"s","a","t","a","0",":","0",".","p","r","e","s","e","n","t">>, <<"T","R","U","E">>),
                                              KV(<<"s","a","t","a","0",":","0",".","f","i","l","e","N","a","m","e">>, <<"b",".","v","m","d","k">>) >>,
      DiskLines(<<"s","c","s","i">>, <<"0",":","0">>, <<>>) \o << KV(<<"f","l","o","p","p","y","0",".","f","i","l","e","N","a","m","e">>, <<"f",".","i","m","g">>) >>,
      << KV(<<"n","v","r","a","m">>, <<"x",".","n","v","r","a","m">>) >>,
      << KV(<<"m","e","m","S","i","z","e">>, <<"0">>) >> }

InitRun ==
    /\ pc = "get_options"
    /\ status = "running"
    /\ vmx \in RunDescriptors
    /\ d = EmptyDict
    /\ fs \in {{VmxFile}, {VmxFile, F_dot}, {VmxFile, XmlFile}, {VmxFile, F_dot, XmlFile}}
    /\ scan \in {s \in ScanOrders : s[1] = <<"s">>}
    /\ datastores = <<>>
    /\ disk_mode = "none"
    /\ raw = FALSE
    /\ skip_extra = FALSE
    /\ osfiles = {}
    /\ networks = NoNetworks
    /\ sandbox = <<>>
    /\ ref = <<>>
    /\ paths = NoPaths
    /\ argv \in RunArgvs
    /\ fidelity = FALSE
    /\ trace_cmd = FALSE
    /\ output_xml = <<>>
    /\ tools \in RunTools
    /\ conv_mode = "v2v"
    /\ adj_mode = "v2v"
    /\ xml_file = FoundXml(argv.output_xml, fs)
    /\ NoRecords

NextRun ==
    \/ GetOptions
    \/ DetectVersions
    \/ ParseVmx
    \/ Decode
    \/ Topology
    \/ Nvram
    \/ FindDisks
    \/ Floppys
    \/ FindEths
    \/ VirtInstallStart
    \/ ConvertDisk
    \/ VirtInstallRun

SpecRun == InitRun /\ [][NextRun]_vars

(***************************************************************************)
(* testboot_xml: the boot test of a domain definition                      *)
(***************************************************************************)
\* what the steps of the boot test leave alone
kept == <<d, fs, paths, di, cp_calls, made_dirs, cmd_args, xml_file, records, machine,
          runs, written, created_dirs, boot_in>>

\* main: get_options
BootGetOptions ==
    /\ pc = "boot_get_options"
    /\ status = "running"
    /\ status' = IF boot_in.verbose > 0 /\ boot_in.quiet > 0 THEN "exit1"
                 ELSE IF boot_in.x_adjust /\ boot_in.skip_adjust THEN "exit1" ELSE status
    /\ pc' = IF status' = "running" THEN "boot_detect" ELSE pc
    /\ adj_mode' = IF status' # "running" THEN adj_mode
                   ELSE IF boot_in.x_adjust THEN "x"
                   ELSE IF boot_in.skip_adjust THEN "none" ELSE "v2v"
    /\ UNCHANGED <<kept, domain, clock, result, vmx, scan, datastores, disk_mode, raw, skip_extra,
                   osfiles, networks, sandbox, ref, argv, fidelity, trace_cmd, output_xml, tools,
                   conv_mode>>

\* main: the versions of adjust_guestfs.py, virsh, virt-xml and arping are
\* detected and the sandbox network is looked up; the process ends when a
\* tool is not found or the network is not active
BootDetect ==
    /\ pc = "boot_detect"
    /\ status = "running"
    /\ \E found \in BOOLEAN, active \in BOOLEAN :
          /\ status' = IF found /\ active THEN status ELSE "exit1"
          /\ pc' = IF found /\ active THEN "boot_check" ELSE pc
    /\ UNCHANGED <<kept, domain, clock, result, inputs>>

\* main: the name of the file is checked, the file is opened, and a domain
\* of the same name is obliterated when --overwrite is given; listed is the
\* outcome of virsh list
BootCheck ==
    /\ pc = "boot_check"
    /\ status = "running"
    /\ \E listed \in BOOLEAN :
          /\ status' = IF ~EndsWith(boot_in.filename, <<".","x","m","l">>) THEN "exit1"
                       ELSE IF PathList(boot_in.filename) \notin fs THEN "FileNotFoundError"
                       ELSE IF re_subn_xml(basename(boot_in.filename)).n # 1 THEN "exit1"
                       ELSE IF ~listed THEN "exit1"
                       ELSE IF domain # "absent" /\ ~boot_in.overwrite THEN "exit0"
                       ELSE status
          /\ pc' = IF status' = "running" THEN "boot_define" ELSE pc
          /\ domain' = IF status' = "running" THEN "absent" ELSE domain
    /\ UNCHANGED <<kept, clock, result, inputs>>

\* main: virsh define
BootDefine ==
    /\ pc = "boot_define"
    /\ status = "running"
    /\ \E ok \in BOOLEAN :
          /\ status' = IF ok THEN status ELSE "exit1"
          /\ pc' = IF ok THEN "boot_find_disks" ELSE pc
          /\ domain' = IF ok THEN "defined" ELSE domain
    /\ UNCHANGED <<kept, clock, result, inputs>>

\* testboot_domain: find_disks; ok is the outcome of virsh domblklist and
\* os_disks the number of disks with an operating system
BootFindDisks ==
    /\ pc = "boot_find_disks"
    /\ status = "running"
    /\ \E ok \in BOOLEAN, os_disks \in 0..1 :
          /\ status' = IF ok /\ os_disks >= 1 THEN status ELSE "exit1"
          /\ pc' = IF ok /\ os_disks >= 1 THEN "boot_prepare" ELSE pc
    /\ UNCHANGED <<kept, domain, clock, result, inputs>>

\* testboot_domain: the overlays are made and adjusted, the extra disks
\* removed, the MAC addresses found and the networks replaced; ok is the
\* outcome of the tools run with check
BootPrepare ==
    /\ pc = "boot_prepare"
    /\ status = "running"
    /\ \E ok \in BOOLEAN :
          /\ status' = IF ok THEN status ELSE "exit1"
          /\ pc' = IF ok THEN "boot_start" ELSE pc
    /\ UNCHANGED <<kept, domain, clock, result, inputs>>

\* testboot_domain: the domain is started paused, its interfaces are checked
\* to be clear for a layer 2 test, and it is resumed
BootStart ==
    /\ pc = "boot_start"
    /\ status = "running"
    /\ \E started \in BOOLEAN, clear \in BOOLEAN, resumed \in BOOLEAN :
          /\ status' = IF ~started THEN "exit1"
                       ELSE IF boot_in.layer2 /\ ~clear THEN "exit1"
                       ELSE IF ~resumed THEN "exit1" ELSE status
          /\ domain' = IF ~started THEN domain
                       ELSE IF status' = "running" THEN "running" ELSE "paused"
          /\ pc' = IF status' = "running" THEN "boot_poll" ELSE pc
    /\ clock' = 0
    /\ UNCHANGED <<kept, result, inputs>>

\* testboot_domain: one round of the loop that waits for network activity;
\* seen is what testboot_net finds, "fatal" when a tool it runs with check
\* fails
BootPoll ==
    /\ pc = "boot_poll"
    /\ status = "running"
    /\ IF boot_in.timeout <= 0 \/ clock < boot_in.timeout
       THEN \E seen \in {"activity", "nothing", "fatal"} :
               /\ seen = "nothing" => clock < MaxClock
               /\ status' = IF seen = "fatal" THEN "exit1" ELSE status
               /\ result' = (seen = "activity")
               /\ clock' = IF seen = "nothing" THEN clock + 1 ELSE clock
               /\ pc' = IF seen = "activity" THEN "boot_report" ELSE pc
       ELSE /\ pc' = "boot_report"
            /\ UNCHANGED <<status, result, clock>>
    /\ UNCHANGED <<kept, domain, inputs>>

\* main: the report; the domain is obliterated and main returns 0 or 2,
\* unless it was asked to keep a booted domain running
BootReport ==
    /\ pc = "boot_report"
    /\ status = "running"
    /\ IF result /\ boot_in.keep
       THEN /\ pc' = "boot_keep"
            /\ UNCHANGED <<status, domain>>
       ELSE /\ domain' = "absent"
            /\ status' = IF result THEN "exit0" ELSE "exit2"
            /\ pc' = pc
    /\ UNCHANGED <<kept, clock, result, inputs>>

(***************************************************************************)
(* Specification of the boot test                                          *)
(***************************************************************************)
\* the command lines of the boot tests explored
BootArgvs ==
    { [NoBootArgs EXCEPT !.overwrite = o, !.layer2 = l, !.timeout = t, !.keep = k] :
        o \in BOOLEAN, l \in BOOLEAN, t \in BootTimeouts, k \in BOOLEAN }
    \cup { [NoBootArgs EXCEPT !.verbose = 1, !.quiet = 1],
           [NoBootArgs EXCEPT !.skip_adjust = TRUE, !.x_adjust = TRUE],
           [NoBootArgs EXCEPT !.skip_adjust = TRUE],
           [NoBootArgs EXCEPT !.x_adjust = TRUE],
           [NoBootArgs EXCEPT !.filename = <<"/","o","/","v","m","/","x">>] }

InitBoot ==
    /\ pc = "boot_get_options"
    /\ status = "running"
    /\ vmx = <<>>
    /\ d = EmptyDict
    /\ fs \in {{}, {XmlFile}}
    /\ scan \in {s \in ScanOrders : s[1] = <<"s">>}
    /\ datastores = <<>>
    /\ disk_mode = "none"
    /\ raw = FALSE
    /\ skip_extra = FALSE
    /\ osfiles = {}
    /\ networks = NoNetworks
    /\ sandbox = Isolated
    /\ ref = <<>>
    /\ paths = NoPaths
    /\ DefaultOptions
    /\ sysinfo = <<>>
    /\ nvram = NoPaths
    /\ disk_ctrls = [i \in {"scsi", "sata", "nvme", "ide"} |-> <<>>]
    /\ disks = <<>>
    /\ floppys = <<NoPaths, NoPaths>>
    /\ eths = <<>>
    /\ bus = 1
    /\ di = 1
    /\ cp_calls = <<>>
    /\ memory = 0
    /\ genid = <<>>
    /\ topology = NoTopology
    /\ sound = <<>>
    /\ cmd_args = <<>>
    /\ made_dirs = {}
    /\ runs = <<>>
    /\ written = <<>>
    /\ created_dirs = {}
    /\ boot_in \in BootArgvs
    /\ domain \in {"absent", "defined", "running"}
    /\ clock = 0
    /\ result = FALSE

NextBoot ==
    \/ BootGetOptions
    \/ BootDetect
    \/ BootCheck
    \/ BootDefine
    \/ BootFindDisks
    \/ BootPrepare
    \/ BootStart
    \/ BootPoll
    \/ BootReport

SpecBoot == InitBoot /\ [][NextBoot]_vars

(***************************************************************************)
(* PROPERTIES                                                              *)
(***************************************************************************)

(***************************************************************************)
(* Vocabulary of the properties of parse_vmx                               *)
(***************************************************************************)
\* the line is blank, or its first non-blank character is # or !
IsBlankOrComment(l) ==
    \/ \A i \in 1..Len(l) : l[i] \in Whitespace
    \/ \E i \in 1..Len(l) : /\ l[i] \in {"#", "!"}
                            /\ \A j \in 1..(i - 1) : l[j] \in Whitespace

HasEq(l) == \E i \in 1..Len(l) : l[i] = "="

IsAssignment(l) == ~IsBlankOrComment(l) /\ HasEq(l)

FirstEq(l) == CHOOSE i \in 1..Len(l) : l[i] = "=" /\ \A j \in 1..(i - 1) : l[j] # "="

\* the lower-cased, trimmed text before the first "="
KeyOf(l) == Lower(Strip(SubSeq(l, 1, FirstEq(l) - 1)))

\* the trimmed text after the first "="
TrimmedValueOf(l) == Strip(SubSeq(l, FirstEq(l) + 1, Len(l)))

Assignments == {i \in 1..Len(vmx) : IsAssignment(vmx[i])}

\* the last line of the descriptor that assigns key k
LastOf(k) ==
    CHOOSE i \in Assignments : /\ KeyOf(vmx[i]) = k
                               /\ \A j \in Assignments : KeyOf(vmx[j]) = k => j <= i

Parsed == pc # "parse_vmx"

\* w is v without its leading and trailing double quotes, however many
IsQuoteTrimOf(w, v) ==
    \E a \in 0..Len(v) : \E b \in a..Len(v) :
        /\ w = SubSeq(v, a + 1, b)
        /\ \A i \in 1..a : v[i] = "\""
        /\ \A i \in (b + 1)..Len(v) : v[i] = "\""
        /\ w # <<>> => (w[1] # "\"" /\ w[Len(w)] # "\"")

\* v without one layer of enclosing double quotes, when it has one
OneLayerOff(v) ==
    IF Len(v) >= 2 /\ v[1] = "\"" /\ v[Len(v)] = "\"" THEN SubSeq(v, 2, Len(v) - 1) ELSE v

\* C6: after parse_vmx the store holds exactly the keys of the assignment
\* lines (blank lines, comment lines and lines without "=" add nothing), each
\* key being the lower-cased trimmed text before the first "=", and each key
\* holds the value of the last line that assigns it.
C6_LastAssignmentWins ==
    Parsed =>
        /\ DOMAIN d = {KeyOf(vmx[i]) : i \in Assignments}
        /\ \A k \in DOMAIN d : d[k] = vmx_value(SubSeq(vmx[LastOf(k)], FirstEq(vmx[LastOf(k)]) + 1,
                                                       Len(vmx[LastOf(k)])))

\* C6 witness: a descriptor of two assignments of one key written in two letter
\* cases has been parsed, and the store holds the second value
C6_Witness ==
    /\ Parsed
    /\ vmx = << <<"A"," ","="," ","\"","x","\"">>, <<" ","a","="," ","y"," ">> >>
    /\ d = (<<"a">> :> <<"y">>)

\* C7 as claimed: the stored value is the trimmed value without exactly one
\* layer of enclosing double quotes.
C7_OneLayerStripped ==
    Parsed => \A k \in DOMAIN d : d[k] = OneLayerOff(TrimmedValueOf(vmx[LastOf(k)]))

\* C7 amended: the stored value is the trimmed value without any of its leading
\* and trailing double quotes, balanced or not; quotes inside it are kept.
C7_AllOuterQuotesStripped ==
    Parsed => \A k \in DOMAIN d : IsQuoteTrimOf(d[k], TrimmedValueOf(vmx[LastOf(k)]))

\* C7 witness: a = ""b"" and B = c" have been parsed and stored as b and c
C7_Witness ==
    /\ Parsed
    /\ vmx = << <<"a"," ","="," ","\"","\"","b","\"","\"">>, <<"B"," ","="," ","c","\"">> >>
    /\ d = (<<"a">> :> <<"b">> @@ <<"b">> :> <<"c">>)

(***************************************************************************)
(* Vocabulary of the properties of parse_filename_ref                      *)
(***************************************************************************)
Called == pc \in {"returned", "exited"}

\* a reference the resolver has to locate
IsFileRef(s) == s # <<>> /\ ~StartsWith(s, DevicePrefix)

\* the directory named by text, as a list of components
DirOf(text) == PathList(text)

\* a file called name lies directly in the directory
FileIn(text, name) == Append(DirOf(text), name) \in fs

\* a file called name lies in the directory or anywhere below it
FileBelow(text, name) ==
    \E f \in fs : /\ Len(f) > Len(DirOf(text))
                  /\ SubSeq(f, 1, Len(DirOf(text))) = DirOf(text)
                  /\ f[Len(f)] = name

\* the user entries whose reference prefix matches the directory of s
Matching(s) ==
    {i \in 1..Len(UserRefs(datastores)) :
        re_subn_prefix(UserRefs(datastores)[i].ref, UserRefs(datastores)[i].src, dirname(s))[2] = 1}

FirstMatching(s) == CHOOSE i \in Matching(s) : \A j \in Matching(s) : i <= j

\* the directory searched for entry i: its input directory in place of the prefix
MatchDir(s, i) ==
    re_subn_prefix(UserRefs(datastores)[i].ref, UserRefs(datastores)[i].src, dirname(s))[1]

InDot(s) == ~isabs(s) /\ FileIn(DsGet(datastores, <<".">>).src, basename(s))

InDotDot(s) == FileIn(DsGet(datastores, <<".", ".">>).src, basename(s))

InFirstMatching(s) == Matching(s) # {} /\ FileBelow(MatchDir(s, FirstMatching(s)), basename(s))

\* C1: a non-empty reference outside /vmfs/devices whose basename is in none
\* of the candidates ends the process with status 1, and no call for such a
\* reference returns a pair with a null element.
C1_MissingFileIsFatal ==
    (Called /\ IsFileRef(ref)) =>
        /\ (~InDot(ref) /\ ~InFirstMatching(ref) /\ ~InDotDot(ref))
               => (pc = "exited" /\ status = "exit1")
        /\ pc = "returned" => (paths[1] # None /\ paths[2] # None)

\* C1 witness: a relative reference with a matching user datastore was looked
\* for in '.', in that datastore and in '..', and the process exited
C1_Witness ==
    /\ pc = "exited" /\ status = "exit1"
    /\ ref = <<"s","/","a",".","v","m","d","k">>
    /\ Matching(ref) # {}
    /\ fs = {VmxFile, F_user, F_iso}

\* C9: with translation the target's trailing .vmdk, in any letter case, is
\* .raw when raw is set and .qcow2 otherwise and the source is the file found;
\* without translation both paths are as found.
C9_TargetExtension ==
    (pc = "returned" /\ IsFileRef(ref)) =>
        LET found == ref_candidates(ref, datastores)
            stem  == SubSeq(found[2], 1, Len(found[2]) - 5)
        IN  /\ paths[1] = found[1]
            /\ paths[2] = IF disk_mode # "none" /\ EndsWith(Lower(found[2]), <<".","v","m","d","k">>)
                          THEN IF raw THEN stem \o <<".","r","a","w">>
                               ELSE stem \o <<".","q","c","o","w","2">>
                          ELSE found[2]

\* C9 witness: B.VMDK was resolved with translation to qcow2
C9_Witness ==
    /\ pc = "returned"
    /\ ref = <<"B",".","V","M","D","K">>
    /\ disk_mode = "translate" /\ ~raw
    /\ paths = << <<"/","h","/","v","m","/","B",".","V","M","D","K">>,
                  <<"/","o","/","v","m","/","B",".","q","c","o","w","2">> >>

Holding(s) == {i \in Matching(s) : FileBelow(MatchDir(s, i), basename(s))}

FirstHolding(s) == CHOOSE i \in Holding(s) : \A j \in Holding(s) : i <= j

\* C11: when the directory of the reference matches several user entries they
\* are tried in table order: a reference not found in '.' resolves from the
\* first matching entry whose directory holds the file, and '..' is consulted
\* only when no matching entry holds it.
C11_EveryMatchingEntryTried ==
    (Called /\ IsFileRef(ref) /\ ~InDot(ref) /\ Holding(ref) # {}) =>
        /\ pc = "returned"
        /\ StartsWith(paths[1], MatchDir(ref, FirstHolding(ref)))
        /\ StartsWith(paths[2], UserRefs(datastores)[FirstHolding(ref)].tgt)

(***************************************************************************)
(* Vocabulary of the properties of a whole run                             *)
(***************************************************************************)
\* the value the descriptor assigns to key k, in whatever letter case the
\* descriptor and k are written; "" when no line assigns it
AssignedTo(k) ==
    IF \E i \in Assignments : KeyOf(vmx[i]) = Lower(k)
    THEN vmx_value(SubSeq(vmx[LastOf(Lower(k))], FirstEq(vmx[LastOf(Lower(k))]) + 1,
                          Len(vmx[LastOf(Lower(k))])))
    ELSE <<>>

\* main has looped over the four interfaces without ending the process
Enumerated == bus > Len(Interfaces)

\* the address space of find_disks
Units ==
    {Interfaces[b] : b \in DOMAIN Interfaces} \X (0..(NumControllers - 1)) \X (0..(NumUnits - 1))

\* the unit a key <bus><x>:<y>.present is the key of
UnitOfKey ==
    [k \in {DiskKey(u[1], u[2], u[3], <<".","p","r","e","s","e","n","t">>) : u \in Units} |->
        CHOOSE u \in Units : DiskKey(u[1], u[2], u[3], <<".","p","r","e","s","e","n","t">>) = k]

\* <bus><x>.present parses as true
ControllerPresent(b, x) == parse_boolean(Get(d, CtrlKey(b, x, <<".","p","r","e","s","e","n","t">>)))

\* the units whose key <bus><x>:<y>.present parses as true
PresentUnits ==
    {UnitOfKey[k] : k \in {j \in DOMAIN d \cap DOMAIN UnitOfKey : parse_boolean(d[j])}}

\* the records made for unit u
RecordsOf(u) ==
    {i \in DOMAIN disks : disks[i].bus = u[1] /\ disks[i].x = u[2] /\ disks[i].y = u[3]}

\* C2: every disk record the command assembler hands to convert_path has a
\* source path and a target path that are not null, the records of present
\* disks without a filename or with a /vmfs/devices filename included.
C2_ProcessedPathsNonNull ==
    \A i \in DOMAIN cp_calls : cp_calls[i][1] # None /\ cp_calls[i][2] # None

\* C3, as the spec states it: once the four interfaces are enumerated there
\* is exactly one disk record for every (bus, x, y) whose <bus><x>:<y>.present
\* parses as true, and no record for any other (bus, x, y).
C3_RecordPerPresentUnit ==
    Enumerated =>
        /\ \A u \in PresentUnits : Cardinality(RecordsOf(u)) = 1
        /\ \A i \in DOMAIN disks : <<disks[i].bus, disks[i].x, disks[i].y>> \in PresentUnits

\* C3, as the code has it: once the four interfaces are enumerated there is
\* exactly one disk record for every (bus, x, y) whose <bus><x>:<y>.present
\* parses as true and whose controller is enumerated, which for every bus but
\* ide asks that <bus><x>.present parses as true; there is no record for any
\* other (bus, x, y).
C3_RecordPerPresentUnitOfPresentController ==
    Enumerated =>
        /\ \A u \in PresentUnits :
              Cardinality(RecordsOf(u)) =
                  IF u[1] = "ide" \/ ControllerPresent(u[1], u[2]) THEN 1 ELSE 0
        /\ \A i \in DOMAIN disks :
              /\ <<disks[i].bus, disks[i].x, disks[i].y>> \in PresentUnits
              /\ disks[i].bus = "ide" \/ ControllerPresent(disks[i].bus, disks[i].x)

\* C3 witness: the interfaces are enumerated, a present unit of a present
\* controller has its record, and a present unit of a controller that is not
\* present has none
C3_Witness ==
    /\ Enumerated
    /\ \E u \in PresentUnits : ControllerPresent(u[1], u[2]) /\ RecordsOf(u) # {}
    /\ \E u \in PresentUnits : u[1] # "ide" /\ ~ControllerPresent(u[1], u[2]) /\ RecordsOf(u) = {}

\* the key the claim spells smbios.reflectHost
ReflectHostKey == <<"s","m","b","i","o","s",".","r","e","f","l","e","c","t","H","o","s","t">>

\* C8: the lookups of the mapper are case-insensitive: once main has decoded
\* the SMBIOS setting, sysinfo is "host" exactly when the descriptor assigns,
\* in whatever letter case, a value that parses as true to smbios.reflectHost.
C8_LookupIgnoresCase ==
    pc \notin {"parse_vmx", "decode"} =>
        sysinfo = IF parse_boolean(AssignedTo(ReflectHostKey)) THEN <<"h","o","s","t">> ELSE <<>>

(***************************************************************************)
(* Vocabulary of the properties of find_eths                               *)
(***************************************************************************)
\* find_eths has returned or has been ended
EthsEnumerated == pc # "find_eths" \/ status # "running"

\* the adapters ethernet<x>.present parses as true for
PresentEths ==
    {x \in 0..(NumEths - 1) : parse_boolean(Get(d, <<"e","t","h","e","r","n","e","t">> \o Str(x) \o <<".","p","r","e","s","e","n","t">>))}

\* the records made for adapter x
EthRecordsOf(x) == {i \in DOMAIN eths : eths[i].x = Str(x)}

\* what a user table maps key to: its entry for key, else its "*" entry,
\* else nothing
UserMapping(table, key) ==
    IF key \in DOMAIN table THEN table[key]
    ELSE IF Star \in DOMAIN table THEN table[Star]
    ELSE <<>>

\* the normalized connection type of adapter x
EthTypeOf(x) ==
    LET t == Get(d, <<"e","t","h","e","r","n","e","t">> \o Str(x) \o <<".","c","o","n","n","e","c","t","i","o","n","t","y","p","e">>) IN
    IF t \in {<<"b","r","i","d","g","e","d">>, <<"v","m","n","e","t","0">>} THEN <<"b","r","i","d","g","e","d">>
    ELSE IF t \in {<<"h","o","s","t","o","n","l","y">>, <<"v","m","n","e","t","1">>} THEN <<"h","o","s","t","o","n","l","y">>
    ELSE IF t \in {<<"n","a","t">>, <<"v","m","n","e","t","8">>} THEN <<"n","a","t">>
    ELSE <<>>

\* the built-in mapping of a normalized connection type
BuiltInMapping(t) ==
    IF t = <<"b","r","i","d","g","e","d">> THEN <<"b","r","i","d","g","e">>
    ELSE IF t = <<"h","o","s","t","o","n","l","y">> THEN <<"n","e","t","w","o","r","k","=">> \o sandbox
    ELSE IF t = <<"n","a","t">> THEN <<"n","e","t","w","o","r","k","=","d","e","f","a","u","l","t">>
    ELSE <<>>

\* the first rule of the precedence that yields a value for adapter x
ExpectedNetwork(x) ==
    LET name   == Get(d, <<"e","t","h","e","r","n","e","t">> \o Str(x) \o <<".","n","e","t","w","o","r","k","n","a","m","e">>)
        byName == IF name = <<>> THEN <<>> ELSE UserMapping(networks.name, name)
        byType == UserMapping(networks.type, EthTypeOf(x))
    IN  IF byName # <<>> THEN byName
        ELSE IF byType # <<>> THEN byType
        ELSE IF BuiltInMapping(EthTypeOf(x)) # <<>> THEN BuiltInMapping(EthTypeOf(x))
        ELSE <<"b","r","i","d","g","e">>

\* C4: find_eths gives every present adapter the target network of the first
\* rule that yields a value: the user's name mapping for its networkname, else
\* the user's type mapping for its normalized connection type, else the
\* built-in mapping of that type, else "bridge".
C4_NetworkPrecedence ==
    EthsEnumerated =>
        \A x \in PresentEths :
            \E i \in EthRecordsOf(x) : eths[i].type = ExpectedNetwork(x)

\* C5: an unmatched mapping is never fatal: whatever the descriptor and the
\* user tables, find_eths returns, with one record for every present adapter,
\* each with a target network that is not empty.
C5_UnmatchedMappingNotFatal ==
    EthsEnumerated =>
        /\ status # "crash"
        /\ \A x \in PresentEths : Cardinality(EthRecordsOf(x)) = 1
        /\ \A i \in DOMAIN eths : eths[i].type # <<>>

(***************************************************************************)
(* Vocabulary of the properties of the machine settings                    *)
(***************************************************************************)
\* the command assembler has been reached
Assembling == pc \in {"virt_install", "disk_loop", "done"}

\* the topology step of main is over, with a topology or an exception
TopologyDone == pc \notin {"parse_vmx", "decode"} /\ (pc = "topology" => status # "running")

\* the descriptor writes a plain number for key, or nothing
PlainCount(key) == \A i \in 1..Len(AssignedTo(key)) : IsDigit(AssignedTo(key)[i])

\* the count the descriptor gives for key, an absent or zero one being 1
CountOf(key) ==
    IF digits_value(AssignedTo(key)) = 0 THEN 1 ELSE digits_value(AssignedTo(key))

\* C12: in every run that reaches the command assembler the topology handed
\* to it satisfies vcpus = sockets * cores * threads, with every factor at
\* least 1, whatever numvcpus and cpuid.corespersocket hold.
C12_TopologyProduct ==
    Assembling =>
        /\ topology.vcpus = topology.sockets * topology.cores * topology.threads
        /\ topology.vcpus >= 1 /\ topology.sockets >= 1
        /\ topology.cores >= 1 /\ topology.threads >= 1

\* C12 witness: a run with a negative numvcpus and a zero corespersocket has
\* reached the command assembler with one vcpu
C12_Witness ==
    /\ Assembling
    /\ AssignedTo(<<"n","u","m","v","c","p","u","s">>) = <<"-","2">>
    /\ AssignedTo(<<"c","p","u","i","d",".","c","o","r","e","s","p","e","r","s","o","c","k","e","t">>) = <<"0">>
    /\ topology = [vcpus |-> 1, sockets |-> 1, cores |-> 1, threads |-> 1]

\* C13: when numvcpus and cpuid.corespersocket are plain numbers, an absent
\* or zero one counting as 1, and the former is a multiple of the latter, the
\* topology step raises nothing and yields sockets = vcpus div cores,
\* cores = corespersocket and threads = 1.
C13_TopologyOfMultiples ==
    (/\ TopologyDone
     /\ PlainCount(<<"n","u","m","v","c","p","u","s">>) /\ PlainCount(<<"c","p","u","i","d",".","c","o","r","e","s","p","e","r","s","o","c","k","e","t">>)
     /\ CountOf(<<"n","u","m","v","c","p","u","s">>) % CountOf(<<"c","p","u","i","d",".","c","o","r","e","s","p","e","r","s","o","c","k","e","t">>) = 0) =>
        /\ pc # "topology"
        /\ topology = [vcpus |-> CountOf(<<"n","u","m","v","c","p","u","s">>),
                       sockets |-> CountOf(<<"n","u","m","v","c","p","u","s">>) \div CountOf(<<"c","p","u","i","d",".","c","o","r","e","s","p","e","r","s","o","c","k","e","t">>),
                       cores |-> CountOf(<<"c","p","u","i","d",".","c","o","r","e","s","p","e","r","s","o","c","k","e","t">>),
                       threads |-> 1]

\* C13 witness: numvcpus 6 and corespersocket 2 gave 6, 3, 2, 1
C13_Witness ==
    /\ TopologyDone
    /\ AssignedTo(<<"n","u","m","v","c","p","u","s">>) = <<"6">>
    /\ AssignedTo(<<"c","p","u","i","d",".","c","o","r","e","s","p","e","r","s","o","c","k","e","t">>) = <<"2">>
    /\ topology = [vcpus |-> 6, sockets |-> 3, cores |-> 2, threads |-> 1]

(***************************************************************************)
(* Vocabulary of the properties of parse_genid: the numbers of the         *)
(* descriptor are read in base 10, as they are written                     *)
(***************************************************************************)
\* the step of main that decodes the generation ID is over
GenidDone == pc # "parse_vmx" /\ (pc = "decode" => status # "running")

\* text is nothing or an integer written in decimal, with or without a minus
IsIntText(t) ==
    \/ t = <<>>
    \/ /\ \A i \in 2..Len(t) : IsDigit(t[i])
       /\ IsDigit(t[1]) \/ (t[1] = "-" /\ Len(t) >= 2)

IsNegText(t) == t # <<>> /\ t[1] = "-"

RECURSIVE DropZeros(_)
DropZeros(ds) == IF ds # <<>> /\ ds[1] = 0 THEN DropZeros(Tail(ds)) ELSE ds

\* the magnitude of the integer text, as decimal digit values without leading
\* zeros; the empty sequence is zero
DecOfText(t) ==
    DropZeros([i \in 1..Len(SelectSeq(t, IsDigit)) |-> DigitValue(SelectSeq(t, IsDigit)[i])])

RECURSIVE DecTimesPlus(_, _, _)
\* dd * m + a in base 10, for a < 100
DecTimesPlus(dd, m, a) ==
    IF dd = <<>> THEN (IF a = 0 THEN <<>> ELSE IF a < 10 THEN <<a>> ELSE <<a \div 10, a % 10>>)
    ELSE Append(DecTimesPlus(SubSeq(dd, 1, Len(dd) - 1), m, (dd[Len(dd)] * m + a) \div 10),
                (dd[Len(dd)] * m + a) % 10)

RECURSIVE DecOfHex(_)
\* the number a sequence of hexadecimal digit values denotes, in base 10
DecOfHex(h) ==
    IF h = <<>> THEN <<>>
    ELSE DecTimesPlus(DecOfHex(SubSeq(h, 1, Len(h) - 1)), 16, h[Len(h)])

RECURSIVE DecAdd(_, _, _)
\* a + b + c in base 10, for a carry c
DecAdd(a, b, c) ==
    IF a = <<>> /\ b = <<>> THEN (IF c = 0 THEN <<>> ELSE <<c>>)
    ELSE LET x == IF a = <<>> THEN 0 ELSE a[Len(a)]
             y == IF b = <<>> THEN 0 ELSE b[Len(b)]
         IN  Append(DecAdd(IF a = <<>> THEN a ELSE SubSeq(a, 1, Len(a) - 1),
                           IF b = <<>> THEN b ELSE SubSeq(b, 1, Len(b) - 1),
                           (x + y + c) \div 10),
                    (x + y + c) % 10)

\* a < b for numbers in base 10 without leading zeros
DecLess(a, b) ==
    \/ Len(a) < Len(b)
    \/ /\ Len(a) = Len(b)
       /\ \E i \in 1..Len(a) : a[i] < b[i] /\ \A j \in 1..(i - 1) : a[j] = b[j]

\* 2^63 and 2^64
TwoTo63 == <<9, 2, 2, 3, 3, 7, 2, 0, 3, 6, 8, 5, 4, 7, 7, 5, 8, 0, 8>>

TwoTo64 == <<1, 8, 4, 4, 6, 7, 4, 4, 0, 7, 3, 7, 0, 9, 5, 5, 1, 6, 1, 6>>

\* the integer text is a signed 64-bit number
IsInt64Text(t) ==
    /\ IsIntText(t)
    /\ \/ DecLess(DecOfText(t), TwoTo63)
       \/ IsNegText(t) /\ DecOfText(t) = TwoTo63

\* the values of a sequence of hexadecimal digits
HexValues(cs) == [i \in 1..Len(cs) |-> (CHOOSE k \in DOMAIN HexChars : HexChars[k] = cs[i]) - 1]

\* the 16 hexadecimal digits cs are the integer text modulo 2^64
IsHexOfModulo(cs, t) ==
    /\ Len(cs) = 16
    /\ \A i \in 1..Len(cs) : \E k \in DOMAIN HexChars : HexChars[k] = cs[i]
    /\ IF IsNegText(t) /\ DecOfText(t) # <<>>
       THEN DecAdd(DecOfHex(HexValues(cs)), DecOfText(t), 0) = TwoTo64
       ELSE DecOfHex(HexValues(cs)) = DecOfText(t)

\* the string with its dashes taken out
Undashed(g) == SelectSeq(g, LAMBDA c : c # "-")

\* C14: for vm.genid and vm.genidx that are signed 64-bit integers, absent
\* counting as 0, parse_genid raises nothing and main goes on; it returns the empty string
\* exactly when both are 0, and otherwise 36 characters with dashes at the
\* offsets 8, 13, 18 and 23 whose 32 hexadecimal digits are the 16 digits of
\* genidx modulo 2^64 followed by the 16 digits of genid modulo 2^64.
C14_GenidFormat ==
    (/\ GenidDone
     /\ PlainCount(<<"m","e","m","s","i","z","e">>)
     /\ IsInt64Text(AssignedTo(<<"v","m",".","g","e","n","i","d">>)) /\ IsInt64Text(AssignedTo(<<"v","m",".","g","e","n","i","d","x">>))) =>
        /\ pc # "decode"
        /\ (genid = <<>>) <=> (DecOfText(AssignedTo(<<"v","m",".","g","e","n","i","d">>)) = <<>>
                                /\ DecOfText(AssignedTo(<<"v","m",".","g","e","n","i","d","x">>)) = <<>>)
        /\ genid # <<>> =>
              /\ Len(genid) = 36
              /\ \A i \in 1..Len(genid) : (genid[i] = "-") <=> (i \in {9, 14, 19, 24})
              /\ IsHexOfModulo(SubSeq(Undashed(genid), 1, 16), AssignedTo(<<"v","m",".","g","e","n","i","d","x">>))
              /\ IsHexOfModulo(SubSeq(Undashed(genid), 17, 32), AssignedTo(<<"v","m",".","g","e","n","i","d">>))

\* C14 witness: genid -1 with genidx 0x123456789abcdef0 was decoded
C14_Witness ==
    /\ GenidDone
    /\ AssignedTo(<<"v","m",".","g","e","n","i","d">>) = <<"-","1">>
    /\ AssignedTo(<<"v","m",".","g","e","n","i","d","x">>) = <<"1","3","1","1","7","6","8","4","6","7","4","6","3","7","9","0","3","2","0">>
    /\ genid = <<"1","2","3","4","5","6","7","8","-","9","a","b","c","-","d","e","f","0","-","f","f","f","f","-","f","f","f","f","f","f","f","f","f","f","f","f">>

(***************************************************************************)
(* Vocabulary of the properties of the translation tables                  *)
(***************************************************************************)
\* the SCSI controller model the spec gives for a virtualdev value
ScsiModelFor(v) ==
    IF v \in {<<"a","u","t","o">>, <<"l","s","i","l","o","g","i","c">>, <<"l","s","i","s","a","s","1","0","6","8">>} THEN v
    ELSE IF v = <<"p","v","s","c","s","i">> THEN <<"v","i","r","t","i","o","-","s","c","s","i">>
    ELSE <<"b","u","s","l","o","g","i","c">>

\* C15: the SCSI controller model is translated by a total table with a
\* default: auto, lsilogic and lsisas1068 give themselves, pvscsi gives
\* virtio-scsi, and every other value, empty or unrecognized, gives buslogic.
C15_ScsiModelDefault ==
    Enumerated =>
        \A x \in DOMAIN disk_ctrls["scsi"] :
            disk_ctrls["scsi"][x].model =
                ScsiModelFor(AssignedTo(<<"s","c","s","i">> \o Str(x) \o <<".","v","i","r","t","u","a","l","d","e","v">>))

\* the sound step of main is over
SoundDone == pc \notin {"parse_vmx", "decode", "topology", "nvram"}

\* the sound model the spec gives for the descriptor
SoundFor ==
    IF ~parse_boolean(AssignedTo(<<"s","o","u","n","d",".","p","r","e","s","e","n","t">>)) THEN <<>>
    ELSE IF parse_boolean(AssignedTo(<<"s","o","u","n","d",".","a","u","t","o","d","e","t","e","c","t">>)) THEN <<"d","e","f","a","u","l","t">>
    ELSE IF AssignedTo(<<"s","o","u","n","d",".","v","i","r","t","u","a","l","d","e","v">>) = <<"e","s","1","3","7","1">> THEN <<"e","s","1","3","7","0">>
    ELSE IF AssignedTo(<<"s","o","u","n","d",".","v","i","r","t","u","a","l","d","e","v">>) = <<"h","d","a","u","d","i","o">> THEN <<"h","d","a">>
    ELSE IF AssignedTo(<<"s","o","u","n","d",".","v","i","r","t","u","a","l","d","e","v">>) = <<"s","b","1","6">> THEN <<"s","b","1","6">>
    ELSE <<"d","e","f","a","u","l","t">>

\* C16: find_sound gives nothing when sound.present is not true, else
\* "default" when sound.autodetect is true, else es1370 for es1371, hda for
\* hdaudio, sb16 for sb16 and "default" for every other sound.virtualdev,
\* empty or unrecognized.
C16_SoundModel == SoundDone => sound = SoundFor

(***************************************************************************)
(* Vocabulary of the properties of the argument list                       *)
(***************************************************************************)
\* the arguments that follow the option in the argument list, in order
ValuesOf(option) ==
    LET at == {i \in 1..(Len(cmd_args) - 1) : cmd_args[i] = option}
        RECURSIVE From(_)
        From(i) == IF i >= Len(cmd_args) THEN <<>>
                   ELSE (IF i \in at THEN <<cmd_args[i + 1]>> ELSE <<>>) \o From(i + 1)
    IN  From(1)

\* the value of the field in a comma-separated list of name=value
FieldOf(arg, name) ==
    LET parts == Split(arg, ",")
        has   == {i \in 1..Len(parts) : StartsWith(parts[i], name \o <<"=">>)}
    IN  IF has = {} THEN <<>>
        ELSE LET i == CHOOSE j \in has : \A k \in has : j <= k
             IN  SubSeq(parts[i], Len(name) + 2, Len(parts[i]))

\* the --disk arguments of the disks, those of the floppy drives left out
DiskArgs ==
    SelectSeq(ValuesOf(<<"-","-","d","i","s","k">>),
              LAMBDA a : FieldOf(a, <<"d","e","v","i","c","e">>) \in {<<"d","i","s","k">>, <<"c","d","r","o","m">>})

\* the disk records virt_install has handled and not skipped
EmittedDisks ==
    SelectSeq(SubSeq(disks, 1, di - 1), LAMBDA k : ~(skip_extra /\ k.os = <<>>))

\* the descriptor makes the unit of the record a cdrom
IsCdrom(disk) ==
    Contains(Lower(AssignedTo(DiskKey(disk.bus, disk.x, disk.y, <<".","d","e","v","i","c","e","t","y","p","e">>))), <<"c","d","r","o","m">>)

\* the argument list has been handed to the domain-definition tool
Handed == xml_file \in {"written", "empty"}

\* C17: in the --disk arguments, a disk that is not a cdrom gets
\* target.bus=virtio in non-fidelity mode whatever its bus; a cdrom, and every
\* disk in fidelity mode, keeps its bus, except that nvme becomes virtio; no
\* --disk argument carries target.bus=nvme.
C17_DiskTargetBus ==
    /\ cmd_args # <<>> => Len(DiskArgs) = Len(EmittedDisks)
    /\ \A k \in 1..Len(DiskArgs) :
          /\ k <= Len(EmittedDisks)
          /\ FieldOf(DiskArgs[k], <<"t","a","r","g","e","t",".","b","u","s">>) =
                IF ~fidelity /\ ~IsCdrom(EmittedDisks[k]) THEN <<"v","i","r","t","i","o">>
                ELSE IF EmittedDisks[k].bus = "nvme" THEN <<"v","i","r","t","i","o">>
                ELSE InterfaceChars[EmittedDisks[k].bus]
    /\ \A a \in {cmd_args[i] : i \in 1..Len(cmd_args)} : FieldOf(a, <<"t","a","r","g","e","t",".","b","u","s">>) # <<"n","v","m","e">>

\* a run without fidelity handed the tool two disks: one on nvme, which got
\* virtio, and a cdrom on sata, which kept sata
C17_Witness ==
    /\ Handed
    /\ ~fidelity
    /\ Len(DiskArgs) = 2
    /\ \E k \in 1..2 : EmittedDisks[k].bus = "nvme" /\ FieldOf(DiskArgs[k], <<"t","a","r","g","e","t",".","b","u","s">>) = <<"v","i","r","t","i","o">>
    /\ \E k \in 1..2 : /\ EmittedDisks[k].bus = "sata" /\ IsCdrom(EmittedDisks[k])
                       /\ FieldOf(DiskArgs[k], <<"t","a","r","g","e","t",".","b","u","s">>) = <<"s","a","t","a">>

\* C18: the argument list handed to the domain-definition tool always holds
\* the four policy extras: a VSOCK device, the serial channel of the guest
\* agent, an RNG device and a disabled memballoon.
C18_PolicyExtras ==
    Handed =>
        /\ ValuesOf(<<"-","-","v","s","o","c","k">>) # <<>>
        /\ \E i \in 1..Len(ValuesOf(<<"-","-","c","h","a","n","n","e","l">>)) :
              Contains(ValuesOf(<<"-","-","c","h","a","n","n","e","l">>)[i], <<"o","r","g",".","q","e","m","u",".","g","u","e","s","t","_","a","g","e","n","t",".","0">>)
        /\ ValuesOf(<<"-","-","r","n","g">>) # <<>>
        /\ ValuesOf(<<"-","-","m","e","m","b","a","l","l","o","o","n">>) = << <<"n","o","n","e">> >>

(***************************************************************************)
(* Vocabulary of the properties of the order of a run                      *)
(***************************************************************************)
\* the command line has conflicting flags, lacks a required flag, names an
\* output that does not end in .xml, or names an output that exists without
\* asking to overwrite it
UsageError ==
    \/ argv.verbose > 0 /\ argv.quiet > 0
    \/ argv.experimental /\ argv.experimental2
    \/ argv.skip_adjust /\ argv.x_adjust
    \/ argv.adjust_fstab /\ ~argv.x_adjust
    \/ argv.input_vmx = <<>> \/ argv.output_xml = <<>>
    \/ ~EndsWith(argv.output_xml, <<".","x","m","l">>)
    \/ PathList(argv.output_xml) \in fs /\ ~argv.overwrite

\* C19: every usage error (conflicting flags, a missing required flag, an
\* output path that does not end in .xml, an output file that exists when
\* overwrite was not requested) ends the run in get_options with exit status
\* 1 and leaves the output XML file unwritten.
C19_UsageErrorsExitOne ==
    [][(pc = "get_options" /\ status = "running" /\ ~argv.help /\ UsageError)
          => (status' = "exit1" /\ pc' = pc /\ xml_file' = xml_file /\ fs' = fs)]_vars

\* the steps at which the fatal conditions are detected: usage errors, tool
\* versions, the nvram, disk and floppy references, and the output name
FatalSteps == {"get_options", "detect_versions", "nvram", "find_disks", "floppys", "virt_install"}

\* C20: every fatal condition (usage error, unresolvable reference of a disk,
\* the NVRAM or a floppy, tool version detection failure, output name without
\* .xml) is detected before the first call of convert_path: once
\* convert_path has been entered, the run does not end with one of them.
C20_FatalBeforeConversion ==
    cp_calls # <<>> => ~(status = "exit1" /\ pc \in FatalSteps)

\* C20 witness: a run has called convert_path and ended with exit status 1
\* all the same, because the domain-definition tool failed
C20_Witness ==
    /\ cp_calls # <<>>
    /\ status = "exit1"
    /\ pc = "disk_loop"

(***************************************************************************)
(* Vocabulary of the properties of the tool checks                         *)
(***************************************************************************)
\* every tool the run cannot do without is installed and recent enough
RequiredToolsFound ==
    /\ tools["virt-install"] >= 22
    /\ tools["virt-inspector"] # 0
    /\ tools["adjust_guestfs.py"] # 0
    /\ tools["qemu-img"] # 0

\* trace-cmd is missing, reports no version, or reports one before 2.7
NoTraceCmd == tools["trace-cmd"] < 27

\* C21: the absence of trace-cmd is not fatal: when trace-cmd is missing or
\* its version cannot be detected, and tracing was not requested, the version
\* checks do not end the run.
C21_MissingTraceCmdNotFatal ==
    (pc = "detect_versions" /\ ~trace_cmd /\ RequiredToolsFound /\ NoTraceCmd)
        => status = "running"

(***************************************************************************)
(* Vocabulary of the properties of the order of the disks                  *)
(***************************************************************************)
\* the place of a bus in the order scsi, sata, nvme, ide
BusRank == [scsi |-> 1, sata |-> 2, nvme |-> 3, ide |-> 4]

\* record a comes before record b: by bus, then controller, then unit
ComesBefore(a, b) ==
    \/ BusRank[a.bus] < BusRank[b.bus]
    \/ a.bus = b.bus /\ a.x < b.x
    \/ a.bus = b.bus /\ a.x = b.x /\ a.y < b.y

\* the words of the --disk argument of a record
CacheWord(disk) ==
    IF parse_boolean(AssignedTo(DiskKey(disk.bus, disk.x, disk.y, <<".","w","r","i","t","e","t","h","r","o","u","g","h">>)))
    THEN <<"w","r","i","t","e","t","h","r","o","u","g","h">> ELSE <<"n","o","n","e">>

\* C22: the disk records come in a fixed order: buses in the order scsi,
\* sata, nvme, ide, within a bus by ascending controller, within a controller
\* by ascending unit; the --disk arguments of the disks follow the records
\* one for one, in that order.
C22_DiskOrder ==
    /\ \A i, j \in DOMAIN disks : i < j => ComesBefore(disks[i], disks[j])
    /\ cmd_args # <<>> =>
          /\ Len(DiskArgs) = Len(EmittedDisks)
          /\ \A k \in 1..Len(DiskArgs) :
                /\ FieldOf(DiskArgs[k], <<"d","e","v","i","c","e">>) =
                      (IF IsCdrom(EmittedDisks[k]) THEN <<"c","d","r","o","m">> ELSE <<"d","i","s","k">>)
                /\ FieldOf(DiskArgs[k], <<"d","r","i","v","e","r",".","c","a","c","h","e">>) = CacheWord(EmittedDisks[k])
                /\ FieldOf(DiskArgs[k], <<"p","a","t","h">>) = EmittedDisks[k].path[2]

\* C22 witness: the tool was handed the four disks of a descriptor that
\* writes them as ide0:1, scsi1:0, scsi0:2, scsi0:1
C22_Witness ==
    /\ Handed
    /\ vmx = ShuffledDisks
    /\ Len(DiskArgs) = 4
    /\ <<disks[1].x, disks[1].y>> = <<0, 1>> /\ disks[1].bus = "scsi"
    /\ <<disks[3].x, disks[3].y>> = <<1, 0>> /\ disks[4].bus = "ide"

(***************************************************************************)
(* Vocabulary of the properties of the controllers                         *)
(***************************************************************************)
\* the controllers of the interface that have a present unit
WithPresentUnit(interface) ==
    {x \in 0..(NumControllers - 1) :
        \E y \in 0..(NumUnits - 1) :
            parse_boolean(Get(d, DiskKey(interface, x, y, <<".","p","r","e","s","e","n","t">>)))}

\* the controllers of the interface whose own present key is true
WithPresentKey(interface) ==
    {x \in 0..(NumControllers - 1) : parse_boolean(Get(d, CtrlKey(interface, x, <<".","p","r","e","s","e","n","t">>)))}

\* C23: after the enumeration the IDE controllers are exactly the x with a
\* present unit ide<x>:<y>, whatever the ide<x>.present keys say, and the
\* controllers of scsi, sata and nvme are exactly the x whose <bus><x>.present
\* is true.
C23_ControllerSets ==
    Enumerated =>
        /\ DOMAIN disk_ctrls["ide"] = WithPresentUnit("ide")
        /\ \A b \in {"scsi", "sata", "nvme"} : DOMAIN disk_ctrls[b] = WithPresentKey(b)

(***************************************************************************)
(* Vocabulary of the properties of the tools run on the disks              *)
(***************************************************************************)
\* the runs of the tool so far
RunsOf(tool) == SelectSeq(runs, LAMBDA r : r.tool = tool)

\* C24: the OS inspector is run on a disk only when disk_mode is convert and
\* the resolved source file is a .vmdk; in the modes none and translate it is
\* never run and every disk record has an empty OS-probe result.
C24_InspectorOnlyWhenConverting ==
    /\ \A i \in 1..Len(RunsOf("virt-inspector")) :
          /\ disk_mode = "convert"
          /\ EndsWith(RunsOf("virt-inspector")[i].src, <<".","v","m","d","k">>)
    /\ disk_mode # "convert" =>
          /\ RunsOf("virt-inspector") = <<>>
          /\ \A i \in DOMAIN disks : disks[i].os = <<>>

\* C24 witness: in convert mode the inspector has been run on a .vmdk disk
\* and found an operating system
C24_Witness ==
    /\ disk_mode = "convert"
    /\ RunsOf("virt-inspector") # <<>>
    /\ \E i \in DOMAIN disks : disks[i].os # <<>>

\* a step in which convert_path was called and returned
ConvertPathReturned == Len(cp_calls') = Len(cp_calls) + 1 /\ status' = "running"

\* the target file of the last call of convert_path after the step
LastTarget == PathList(cp_calls'[Len(cp_calls')][2])

\* C25: in the modes none and translate a call of convert_path leaves the
\* target file in place: a missing one is created empty, an existing one is
\* left as it was, and no copy or conversion program is run; so every target
\* exists when the domain-definition tool has been run.
C25_PlaceholderDisks ==
    [][ /\ (disk_mode # "convert" /\ ConvertPathReturned) =>
              /\ fs' = fs \cup {LastTarget}
              /\ LastTarget \in fs => written' = written
              /\ LastTarget \notin fs =>
                    /\ DOMAIN written' = DOMAIN written \cup {LastTarget}
                    /\ written'[LastTarget] = "empty"
                    /\ \A f \in DOMAIN written : written'[f] = written[f]
              /\ runs' = runs
        /\ (disk_mode # "convert" /\ Handed') =>
              \A i \in DOMAIN cp_calls' : PathList(cp_calls'[i][2]) \in fs' ]_vars

\* C25 witness: outside convert mode the domain-definition tool has been run
\* after convert_path found the target of a disk in place
C25_Witness ==
    /\ disk_mode # "convert"
    /\ Handed
    /\ \E i \in DOMAIN cp_calls : PathList(cp_calls[i][2]) \notin DOMAIN written

\* main has got past the checks of the options, of the output name, of the
\* versions of the tools and the resolution of the files the descriptor names
ValidationComplete == pc \in {"virt_install", "disk_loop", "done"}

\* C26: until validation is complete (flag checks, output-name and
\* output-existence checks, tool version checks, resolution of every
\* referenced file) the run has created or modified nothing on the host's
\* filesystem.
C26_NoEffectBeforeValidation ==
    ~ValidationComplete =>
        /\ created_dirs = {}
        /\ written = <<>>
        /\ xml_file \notin {"written", "empty"}

\* the values of the --disk options of the argument list
DiskValues == {ValuesOf(<<"-","-","d","i","s","k">>)[i] : i \in DOMAIN ValuesOf(<<"-","-","d","i","s","k">>)}

\* C27: when the machine has no disk records and neither floppy drive
\* resolves to a file, the argument list holds the pair --disk none; when a
\* --disk argument with a path is emitted it does not.
C27_DiskNone ==
    Handed =>
        /\ (disks = <<>> /\ \A i \in DOMAIN floppys : ~all(floppys[i])) => <<"n","o","n","e">> \in DiskValues
        /\ (\E v \in DiskValues : FieldOf(v, <<"p","a","t","h">>) # <<>>) => <<"n","o","n","e">> \notin DiskValues

\* the runs of the programs that convert a .vmdk disk
ConversionRuns ==
    SelectSeq(runs, LAMBDA r : r.tool \in {ConversionTool[c] : c \in DOMAIN ConversionTool})

\* the inspection of the source file of the run named no operating system
NoOsFound(r) == \E k \in DOMAIN disks : disks[k].path[1] = r.src /\ disks[k].os = <<>>

\* C28: in convert mode a .vmdk disk whose inspection found no OS name is
\* never passed to virt-v2v and never gets a guest adjustment: the conversion
\* method v2v is replaced by the qemu-nbd method and the adjustment mode by
\* none, while the methods x and y are kept as requested.
C28_NoOsDiskNotAdjusted ==
    \A i \in DOMAIN ConversionRuns :
        NoOsFound(ConversionRuns[i]) =>
            /\ ConversionRuns[i].tool # "virt-v2v"
            /\ ConversionRuns[i].adj = "none"
            /\ ConversionRuns[i].tool = IF conv_mode = "x" THEN "qemu-img" ELSE "qemu-nbd"

\* C28 witness: with the method v2v and the adjustment v2v requested, a disk
\* with no OS name has been converted by the qemu-nbd method
C28_Witness ==
    /\ conv_mode = "v2v"
    /\ adj_mode = "v2v"
    /\ \E i \in DOMAIN ConversionRuns :
          NoOsFound(ConversionRuns[i]) /\ ConversionRuns[i].tool = "qemu-nbd"

\* the values of the --network options, one for every adapter record
NetworkValues == ValuesOf(<<"-","-","n","e","t","w","o","r","k">>)

\* the descriptor gives adapter x the address type static and an address
StaticAddress(x) ==
    /\ Get(d, <<"e","t","h","e","r","n","e","t">> \o x \o <<".","a","d","d","r","e","s","s","t","y","p","e">>) = <<"s","t","a","t","i","c">>
    /\ Get(d, <<"e","t","h","e","r","n","e","t">> \o x \o <<".","a","d","d","r","e","s","s">>) # <<>>

\* C29: a --network argument has a mac= field exactly when the address type
\* of the adapter is static and its address field is not empty; an adapter
\* with another address type never gets one, even when a MAC was read for it.
C29_MacOnlyForStatic ==
    Handed =>
        /\ Len(NetworkValues) = Len(eths)
        /\ \A i \in DOMAIN eths :
              (FieldOf(NetworkValues[i], <<"m","a","c">>) # <<>>) <=> StaticAddress(eths[i].x)

\* C29 witness: of two adapters with a MAC address the static one has got
\* a mac= field and the other one none
C29_Witness ==
    /\ Handed
    /\ \E i \in DOMAIN eths : FieldOf(NetworkValues[i], <<"m","a","c">>) # <<>>
    /\ \E i \in DOMAIN eths : eths[i].mac # <<>> /\ FieldOf(NetworkValues[i], <<"m","a","c">>) = <<>>

(***************************************************************************)
(* Vocabulary of the properties of the boot test                           *)
(***************************************************************************)
\* virsh define has been run with success
DomainDefined == pc \in {"boot_find_disks", "boot_prepare", "boot_start", "boot_poll", "boot_report", "boot_keep"}

\* the process has ended
Terminated == status # "running"

\* C30: on every path by which testboot_xml ends after it has defined the
\* domain (boot success, boot failure at the timeout, or a fatal exit inside
\* testboot_domain) the domain has been destroyed and undefined before the
\* process exits; the exit status is 0 only after network activity was
\* detected and 2 after a timeout without activity.
C30_DomainObliterated ==
    (DomainDefined /\ Terminated) =>
        /\ domain = "absent"
        /\ status = "exit0" => result
        /\ status = "exit2" => (~result /\ boot_in.timeout > 0 /\ clock >= boot_in.timeout)

====
